---- MODULE Spec2Model ----
(***************************************************************************)
(* Model of mcp-accessibility-bridge: the selector priority engine         *)
(* (utils/selectorGenerator.ts), the accessibility-tree utilities          *)
(* (utils/axTree.ts) as used by the get_accessibility_tree handler, the    *)
(* node summarizer on its own, the get_interactive_elements handler with   *)
(* its concurrent DOM.describeNode fetches, and the connection manager     *)
(* (browser/BrowserManager.ts) with the tool handlers calling it.          *)
(*                                                                         *)
(* A JavaScript string is modelled as a sequence of one-character strings, *)
(* so that template literals are concatenations and escaping, lower-casing *)
(* and the id regular expression act character by character.              *)
(***************************************************************************)
EXTENDS Integers, Sequences, FiniteSets, TLC

VARIABLES
    pc,               \* "input" before the operation has run, "done" after
    name,             \* buildSelectorFromRawNode: accessible name
    role,             \* buildSelectorFromRawNode: role
    tagName,          \* buildSelectorFromRawNode: tag name as given by the DOM
    attributes,       \* buildSelectorFromRawNode: [defined, items] flat attribute array
    attrMap,          \* buildSelectorFromRawNode: the local attrs, the parsed attribute map
    result,           \* the SuggestedSelectors bundle returned
    nodes,            \* Accessibility.getFullAXTree: the flat node list
    maxDepth,         \* get_accessibility_tree argument
    interestingOnly,  \* get_accessibility_tree argument
    useFullTree,      \* get_accessibility_tree argument
    snapshot,         \* page.accessibility.snapshot: the tree returned, or null
    assembled,        \* get_accessibility_tree: the local assembled, the tree before pruning
    response,         \* the payload handed to toolSuccess by get_accessibility_tree
    rawNode,          \* cdpAXNodeToSummary: the CdpAXNode given
    summarized,       \* cdpAXNodeToSummary: the AXNodeSummary returned
    allNodes,         \* get_interactive_elements: the getFullAXTree node list
    rolesArg,         \* get_interactive_elements argument roles: [defined, items]
    includeDisabled,  \* get_interactive_elements argument
    maxElements,      \* get_interactive_elements argument
    interactiveNodes, \* get_interactive_elements: the filtered nodes
    limited,          \* get_interactive_elements: the first maxElements of them
    settled,          \* per position of limited: the ElementResult its promise resolved to
    completionOrder,  \* the positions of limited in the order their promises resolved
    failedFetches,    \* the positions of limited whose DOM.describeNode was rejected
    elementsResponse, \* the payload handed to toolSuccess by get_interactive_elements
    managerState,     \* BrowserManager.state: 0 for null, else the connection held
    connections,      \* per browser connection: what has been done to it
    calls,            \* per tool call: its handler's position, locals and result
    overlapped        \* whether a call was ever issued while another was in flight

selVars == <<name, role, tagName, attributes, attrMap, result>>
treeVars == <<nodes, maxDepth, interestingOnly, useFullTree, snapshot, assembled, response>>

sumVars == <<rawNode, summarized>>

intArgs == <<allNodes, rolesArg, includeDisabled, maxElements>>
intVars == <<intArgs, interactiveNodes, limited, settled, completionOrder, failedFetches,
             elementsResponse>>

mgrVars == <<managerState, connections, calls, overlapped>>

vars == <<pc, selVars, treeVars, sumVars, intVars, mgrVars>>

----------------------------------------------------------------------------
(* Bounds of the model. *)

\* longest flat attribute array drawn (an odd length leaves a trailing key)
MaxAttrLen == 4

\* most nodes in a snapshot drawn
MaxNodes == 3

\* largest maxElements argument drawn
MaxElementsArg == 3

\* largest maxDepth argument drawn
MaxDepthArg == 3

\* most levels of a page.accessibility.snapshot tree drawn
MaxSnapshotHeight == 3

\* most tool calls issued to the server in one run
MaxCalls == 3

----------------------------------------------------------------------------
(* Character helpers. *)

Min(S) == CHOOSE x \in S : \A y \in S : x <= y
Max(S) == CHOOSE x \in S : \A y \in S : x >= y

UpperChars == <<"A","B","C","D","E","F","G","H","I","J","K","L","M","N","O","P","Q","R","S","T","U","V","W","X","Y","Z">> (* ABCDEFGHIJKLMNOPQRSTUVWXYZ *)
LowerChars == <<"a","b","c","d","e","f","g","h","i","j","k","l","m","n","o","p","q","r","s","t","u","v","w","x","y","z">> (* abcdefghijklmnopqrstuvwxyz *)
DigitChars == {"0","1","2","3","4","5","6","7","8","9"}
HexChars == DigitChars \cup {"a","b","c","d","e","f"}

\* String.prototype.toLowerCase on one character
LowerChar(c) ==
    IF \E i \in 1..26 : UpperChars[i] = c
    THEN LowerChars[CHOOSE i \in 1..26 : UpperChars[i] = c]
    ELSE c

toLowerCase(s) == [i \in 1..Len(s) |-> LowerChar(s[i])]

\* s.replace(/c/g, r): every occurrence of character c replaced by string r
RECURSIVE ReplaceAll(_, _, _)
ReplaceAll(s, c, r) ==
    IF s = <<>> THEN <<>>
    ELSE (IF Head(s) = c THEN r ELSE <<Head(s)>>) \o ReplaceAll(Tail(s), c, r)

\* s.replace(/'/g, "\\'").replace(/"/g, '\\"')
escapeStr(s) == ReplaceAll(ReplaceAll(s, "'", <<"\\","'">> (* \' *)), "\"", <<"\\","\"">> (* \" *))

\* p is a prefix of s, ignoring case (the /i flag)
StartsWithCI(s, p) ==
    /\ Len(s) >= Len(p)
    /\ \A i \in 1..Len(p) : LowerChar(s[i]) = LowerChar(p[i])

\* fault variant: the [0-9] alternative left out of the expression
UNSTABLE_ID_RE_NoDigit(s) ==
    \/ StartsWithCI(s, <<"m","a","t","-">> (* mat- *))
    \/ StartsWithCI(s, <<"n","g","-">> (* ng- *))
    \/ (/\ Len(s) >= 9
        /\ \A i \in 1..8 : LowerChar(s[i]) \in HexChars
        /\ s[9] = "-")

\* /^(mat-|ng-|[0-9]|[a-f0-9]{8}-)/i .test(s)
UNSTABLE_ID_RE(s) ==
    \/ StartsWithCI(s, <<"m","a","t","-">> (* mat- *))
    \/ StartsWithCI(s, <<"n","g","-">> (* ng- *))
    \/ (Len(s) >= 1 /\ s[1] \in DigitChars)
    \/ (/\ Len(s) >= 9
        /\ \A i \in 1..8 : LowerChar(s[i]) \in HexChars
        /\ s[9] = "-")

----------------------------------------------------------------------------
(* Attribute names. *)

DATA_TESTID == <<"d","a","t","a","-","t","e","s","t","i","d">> (* data-testid *)
DATA_CY == <<"d","a","t","a","-","c","y">> (* data-cy *)
DATA_TEST == <<"d","a","t","a","-","t","e","s","t">> (* data-test *)
DATA_QA == <<"d","a","t","a","-","q","a">> (* data-qa *)
ID_ATTR == <<"i","d">> (* id *)

TEST_ID_ATTRS == <<DATA_TESTID, DATA_CY, DATA_TEST, DATA_QA>>

\* fault variant: name listed before type
USEFUL_ATTRS_Swapped == <<<<"n","a","m","e">> (* name *), <<"t","y","p","e">> (* type *), <<"r","o","l","e">> (* role *), <<"p","l","a","c","e","h","o","l","d","e","r">> (* placeholder *)>>

\* const useful = ['type', 'name', 'role', 'placeholder']
USEFUL_ATTRS == <<<<"t","y","p","e">> (* type *), <<"n","a","m","e">> (* name *), <<"r","o","l","e">> (* role *), <<"p","l","a","c","e","h","o","l","d","e","r">> (* placeholder *)>>

----------------------------------------------------------------------------
(* parseAttrs: the flat array ["key", "value", ...] as a map.  An absent   *)
(* array gives the empty map; a later pair overwrites an earlier one; a    *)
(* trailing element without a partner is not read.                         *)

EmptyMap == [k \in {} |-> <<>>]

\* fault variant: the loop stops one pair early
RECURSIVE ParseFrom_StopsEarly(_, _, _)
ParseFrom_StopsEarly(items, i, map) ==
    IF i + 2 <= Len(items)
    THEN ParseFrom_StopsEarly(items, i + 2,
                   [k \in (DOMAIN map) \cup {items[i]} |->
                       IF k = items[i] THEN items[i + 1] ELSE map[k]])
    ELSE map

\* fault variant: a key that is already mapped keeps its first value
RECURSIVE ParseFrom_FirstWins(_, _, _)
ParseFrom_FirstWins(items, i, map) ==
    IF i + 1 <= Len(items)
    THEN ParseFrom_FirstWins(items, i + 2,
                   [k \in (DOMAIN map) \cup {items[i]} |->
                       IF k \in DOMAIN map THEN map[k] ELSE items[i + 1]])
    ELSE map

RECURSIVE ParseFrom(_, _, _)
ParseFrom(items, i, map) ==
    IF i + 1 <= Len(items)
    THEN ParseFrom(items, i + 2,
                   [k \in (DOMAIN map) \cup {items[i]} |->
                       IF k = items[i] THEN items[i + 1] ELSE map[k]])
    ELSE map

parseAttrs(attrsArg) ==
    IF ~attrsArg.defined THEN EmptyMap ELSE ParseFrom(attrsArg.items, 1, EmptyMap)

\* JavaScript truthiness of attrs[k]: undefined and "" are both falsy
Truthy(attrs, k) == k \in DOMAIN attrs /\ attrs[k] # <<>>

----------------------------------------------------------------------------
(* Selector builders. *)

\* role=<role>  or  role=<role>[name='<escaped name>']
buildAriaSelector(r, n) ==
    IF n = <<>> THEN <<"r","o","l","e","=">> (* role= *) \o r
    ELSE <<"r","o","l","e","=">> (* role= *) \o r \o <<"[","n","a","m","e","=","'">> (* [name=' *) \o escapeStr(n) \o <<"'","]">> (* '] *)

RoleMapKeys ==
    { <<"t","e","x","t","b","o","x">> (* textbox *), <<"s","e","a","r","c","h","b","o","x">> (* searchbox *), <<"c","o","m","b","o","b","o","x">> (* combobox *), <<"b","u","t","t","o","n">> (* button *), <<"l","i","n","k">> (* link *), <<"c","h","e","c","k","b","o","x">> (* checkbox *),
      <<"r","a","d","i","o">> (* radio *), <<"l","i","s","t","b","o","x">> (* listbox *), <<"o","p","t","i","o","n">> (* option *), <<"m","e","n","u","i","t","e","m">> (* menuitem *), <<"t","a","b">> (* tab *), <<"s","w","i","t","c","h">> (* switch *), <<"s","l","i","d","e","r">> (* slider *),
      <<"s","p","i","n","b","u","t","t","o","n">> (* spinbutton *), <<"g","r","i","d","c","e","l","l">> (* gridcell *) }

\* the roleMap object: every listed role maps to itself
roleMap == [r \in RoleMapKeys |-> r]

\* page.getByRole('<role>')  or  page.getByRole('<role>', { name: '<name>' })
buildPlaywrightByRole(r, n) ==
    LET ariaRole == IF r \in DOMAIN roleMap THEN roleMap[r] ELSE r
    IN  IF n = <<>>
        THEN <<"p","a","g","e",".","g","e","t","B","y","R","o","l","e","(","'">> (* page.getByRole(' *) \o escapeStr(ariaRole) \o <<"'",")">> (* ') *)
        ELSE <<"p","a","g","e",".","g","e","t","B","y","R","o","l","e","(","'">> (* page.getByRole(' *) \o escapeStr(ariaRole) \o <<"'",","," ","{"," ","n","a","m","e",":"," ","'">> (* ', { name: ' *)
                 \o escapeStr(n) \o <<"'"," ","}",")">> (* ' }) *)

\* //<tag>[@aria-label='<name>' or @title='<name>']  or  //<tag>[@role='<role>']
buildXPath(r, n, tag) ==
    IF n # <<>>
    THEN <<"/","/">> (* // *) \o tag \o <<"[","@","a","r","i","a","-","l","a","b","e","l","=","'">> (* [@aria-label=' *) \o escapeStr(n) \o <<"'"," ","o","r"," ","@","t","i","t","l","e","=","'">> (* ' or @title=' *)
             \o escapeStr(n) \o <<"'","]">> (* '] *)
    ELSE <<"/","/">> (* // *) \o tag \o <<"[","@","r","o","l","e","=","'">> (* [@role=' *) \o r \o <<"'","]">> (* '] *)

\* [<attr>="<value>"], the value not escaped
AttrEquals(attr, val) == <<"[">> \o attr \o <<"=","\"">> (* =" *) \o val \o <<"\"","]">> (* "] *)

\* tag followed by [attr="value"] for each useful attribute with a truthy value
RECURSIVE SemanticParts(_, _)
SemanticParts(attrs, i) ==
    IF i > Len(USEFUL_ATTRS) THEN <<>>
    ELSE (IF Truthy(attrs, USEFUL_ATTRS[i])
          THEN AttrEquals(USEFUL_ATTRS[i], attrs[USEFUL_ATTRS[i]])
          ELSE <<>>) \o SemanticParts(attrs, i + 1)

buildSemanticCss(tag, attrs) == tag \o SemanticParts(attrs, 1)

\* Priority 1: the bundle returned for test-id attribute attr with value val
TestIdBundle(attr, val, r, n) ==
    LET attrSelector == AttrEquals(attr, val)
    IN  [ testId      |-> attrSelector,
          aria        |-> buildAriaSelector(r, n),
          css         |-> attrSelector,
          playwright  |->
              IF attr = DATA_TESTID
              THEN <<"p","a","g","e",".","g","e","t","B","y","T","e","s","t","I","d","(","'">> (* page.getByTestId(' *) \o escapeStr(val) \o <<"'",")">> (* ') *)
              ELSE <<"p","a","g","e",".","l","o","c","a","t","o","r","(","'","[">> (* page.locator('[ *) \o attr \o <<"=","\"">> (* =" *) \o escapeStr(val) \o <<"\"","]","'",")">> (* "]') *),
          selenium    |-> <<"d","r","i","v","e","r",".","f","i","n","d","_","e","l","e","m","e","n","t","(","B","y",".","C","S","S","_","S","E","L","E","C","T","O","R",","," ","'">> (* driver.find_element(By.CSS_SELECTOR, ' *) \o attrSelector \o <<"'",")">> (* ') *),
          cypress     |-> <<"c","y",".","g","e","t","(","'">> (* cy.get(' *) \o attrSelector \o <<"'",")">> (* ') *),
          webdriverio |-> <<"$","(","'">> (* $(' *) \o attrSelector \o <<"'",")">> (* ') *),
          stability   |-> "high",
          recommended |->
              IF attr = DATA_TESTID
              THEN <<"p","a","g","e",".","g","e","t","B","y","T","e","s","t","I","d","(","'">> (* page.getByTestId(' *) \o escapeStr(val) \o <<"'",")">> (* ') *)
              ELSE <<"p","a","g","e",".","l","o","c","a","t","o","r","(","'","[">> (* page.locator('[ *) \o attr \o <<"=","\"">> (* =" *) \o escapeStr(val) \o <<"\"","]","'",")">> (* "]') *) ]

\* Priority 2: the bundle returned for a stable id
StableIdBundle(idVal, r, n) ==
    LET idSelector == <<"#">> \o idVal
    IN  [ id          |-> idSelector,
          aria        |-> buildAriaSelector(r, n),
          css         |-> idSelector,
          playwright  |-> <<"p","a","g","e",".","l","o","c","a","t","o","r","(","'">> (* page.locator(' *) \o idSelector \o <<"'",")">> (* ') *),
          selenium    |-> <<"d","r","i","v","e","r",".","f","i","n","d","_","e","l","e","m","e","n","t","(","B","y",".","I","D",","," ","'">> (* driver.find_element(By.ID, ' *) \o escapeStr(idVal) \o <<"'",")">> (* ') *),
          cypress     |-> <<"c","y",".","g","e","t","(","'">> (* cy.get(' *) \o idSelector \o <<"'",")">> (* ') *),
          webdriverio |-> <<"$","(","'">> (* $(' *) \o idSelector \o <<"'",")">> (* ') *),
          stability   |-> "high",
          recommended |-> <<"p","a","g","e",".","l","o","c","a","t","o","r","(","'">> (* page.locator(' *) \o idSelector \o <<"'",")">> (* ') *) ]

\* x || y on strings
OrElse(x, y) == IF x # <<>> THEN x ELSE y

\* Priority 3: the bundle returned for a role and an accessible name
RoleNameBundle(n, r, tag, attrs) ==
    LET ariaSelector == buildAriaSelector(r, n)
        playwrightByRole == buildPlaywrightByRole(r, n)
        xpathSelector == buildXPath(r, n, tag)
    IN  [ aria        |-> ariaSelector,
          css         |-> buildSemanticCss(tag, attrs),
          playwright  |-> playwrightByRole,
          selenium    |-> <<"d","r","i","v","e","r",".","f","i","n","d","_","e","l","e","m","e","n","t","(","B","y",".","X","P","A","T","H",","," ","'">> (* driver.find_element(By.XPATH, ' *) \o xpathSelector \o <<"'",")">> (* ') *),
          cypress     |-> <<"c","y",".","g","e","t","(","'">> (* cy.get(' *) \o OrElse(buildSemanticCss(tag, attrs), tag) \o <<"'",")">> (* ') *),
          webdriverio |-> <<"$","(","'">> (* $(' *) \o ariaSelector \o <<"'",")">> (* ') *),
          stability   |-> "medium",
          recommended |-> playwrightByRole ]

\* fault variant: recommended is the bare css expression
SemanticCssBundle_RecCss(tag, attrs) ==
    LET semanticCss == OrElse(buildSemanticCss(tag, attrs), tag)
    IN  [ css         |-> semanticCss,
          playwright  |-> <<"p","a","g","e",".","l","o","c","a","t","o","r","(","'">> (* page.locator(' *) \o semanticCss \o <<"'",")">> (* ') *),
          selenium    |-> <<"d","r","i","v","e","r",".","f","i","n","d","_","e","l","e","m","e","n","t","(","B","y",".","C","S","S","_","S","E","L","E","C","T","O","R",","," ","'">> (* driver.find_element(By.CSS_SELECTOR, ' *) \o semanticCss \o <<"'",")">> (* ') *),
          cypress     |-> <<"c","y",".","g","e","t","(","'">> (* cy.get(' *) \o semanticCss \o <<"'",")">> (* ') *),
          webdriverio |-> <<"$","(","'">> (* $(' *) \o semanticCss \o <<"'",")">> (* ') *),
          stability   |-> "low",
          recommended |-> semanticCss ]

\* Priority 4: the semantic-CSS bundle
SemanticCssBundle(tag, attrs) ==
    LET semanticCss == OrElse(buildSemanticCss(tag, attrs), tag)
    IN  [ css         |-> semanticCss,
          playwright  |-> <<"p","a","g","e",".","l","o","c","a","t","o","r","(","'">> (* page.locator(' *) \o semanticCss \o <<"'",")">> (* ') *),
          selenium    |-> <<"d","r","i","v","e","r",".","f","i","n","d","_","e","l","e","m","e","n","t","(","B","y",".","C","S","S","_","S","E","L","E","C","T","O","R",","," ","'">> (* driver.find_element(By.CSS_SELECTOR, ' *) \o semanticCss \o <<"'",")">> (* ') *),
          cypress     |-> <<"c","y",".","g","e","t","(","'">> (* cy.get(' *) \o semanticCss \o <<"'",")">> (* ') *),
          webdriverio |-> <<"$","(","'">> (* $(' *) \o semanticCss \o <<"'",")">> (* ') *),
          stability   |-> "low",
          recommended |-> <<"p","a","g","e",".","l","o","c","a","t","o","r","(","'">> (* page.locator(' *) \o semanticCss \o <<"'",")">> (* ') *) ]

\* fault variant: the {8}- of the last alternative left out, so that any
\* leading hex character counts as auto-generated
StableIdApplies_HexLead(attrs) ==
    /\ Truthy(attrs, ID_ATTR)
    /\ ~UNSTABLE_ID_RE(attrs[ID_ATTR])
    /\ LowerChar(attrs[ID_ATTR][1]) \notin HexChars

\* idVal && !UNSTABLE_ID_RE.test(idVal)
StableIdApplies(attrs) == Truthy(attrs, ID_ATTR) /\ ~UNSTABLE_ID_RE(attrs[ID_ATTR])

\* fault variant: the stable id is tried before the test-id attributes
TestIdHit_IdFirst(attrs) ==
    LET hits == {i \in 1..Len(TEST_ID_ATTRS) : Truthy(attrs, TEST_ID_ATTRS[i])}
    IN  IF hits = {} \/ StableIdApplies(attrs) THEN 0 ELSE Min(hits)

\* fault variant: the last test-id attribute present wins
TestIdHit_Last(attrs) ==
    LET hits == {i \in 1..Len(TEST_ID_ATTRS) : Truthy(attrs, TEST_ID_ATTRS[i])}
    IN  IF hits = {} THEN 0 ELSE Max(hits)

\* for (const attr of TEST_ID_ATTRS) { const val = attrs[attr]; if (val) ...:
\* the position in TEST_ID_ATTRS of the attribute the loop returns on, 0 if none
TestIdHit(attrs) ==
    LET hits == {i \in 1..Len(TEST_ID_ATTRS) : Truthy(attrs, TEST_ID_ATTRS[i])}
    IN  IF hits = {} THEN 0 ELSE Min(hits)

\* fault variant: name || role
RoleNameApplies_Or(n, r) == n # <<>> \/ r # <<>>

\* name && role
RoleNameApplies(n, r) == n # <<>> /\ r # <<>>

buildSelectorFromRawNode(n, r, tagArg, attrsArg) ==
    LET attrs == parseAttrs(attrsArg)
        tag == toLowerCase(tagArg)
        hit == TestIdHit(attrs)
    IN  IF hit # 0
        THEN TestIdBundle(TEST_ID_ATTRS[hit], attrs[TEST_ID_ATTRS[hit]], r, n)
        ELSE IF StableIdApplies(attrs)
        THEN StableIdBundle(attrs[ID_ATTR], r, n)
        ELSE IF RoleNameApplies(n, r)
        THEN RoleNameBundle(n, r, tag, attrs)
        ELSE SemanticCssBundle(tag, attrs)

----------------------------------------------------------------------------
(* Inputs of the selector engine. *)

QUOTED == <<"h","\"","i","'","s">> (* h"i's *)

Names == { <<>>, <<"S","u","b","m","i","t">> (* Submit *), QUOTED }
Roles == { <<>>, <<"b","u","t","t","o","n">> (* button *), <<"l","i","n","k">> (* link *), <<"h","e","a","d","i","n","g">> (* heading *) }
Tags == { <<>>, <<"B","U","T","T","O","N">> (* BUTTON *), <<"i","n","p","u","t">> (* input *) }

TestIdValues == { <<>>, <<"s","u","b","m","i","t","-","b","t","n">> (* submit-btn *), QUOTED }
AltTestIdValues == { <<>>, <<"c","y","1">> (* cy1 *) }
IdValues ==
    { <<>>, <<"e","m","a","i","l","-","i","n","p","u","t">> (* email-input *), <<"m","a","t","-","9">> (* mat-9 *), <<"n","g","-","a","b","c">> (* ng-abc *), <<"4","2">> (* 42 *), <<"a","1","b","2","c","3","d","4","-","e","5">> (* a1b2c3d4-e5 *), <<"3","c","o","l">> (* 3col *),
      <<"M","A","T","-","x">> (* MAT-x *), <<"i","t","'","s">> (* it's *) }

KeyValues ==
    {<<DATA_TESTID, v>> : v \in TestIdValues}
    \cup {<<k, v>> : k \in {DATA_CY, DATA_TEST, DATA_QA}, v \in AltTestIdValues}
    \cup {<<ID_ATTR, v>> : v \in IdValues}
    \cup {<<<<"t","y","p","e">> (* type *), v>> : v \in {<<>>, <<"t","e","x","t">> (* text *)}}
    \cup {<<<<"n","a","m","e">> (* name *), v>> : v \in {<<>>, <<"q">>}}
    \cup {<<<<"r","o","l","e">> (* role *), <<"x">>>>, <<<<"p","l","a","c","e","h","o","l","d","e","r">> (* placeholder *), <<"a","\"","b">> (* a"b *)>>, <<<<"p","l","a","c","e","h","o","l","d","e","r">> (* placeholder *), <<>>>>,
          <<<<"c","l","a","s","s">> (* class *), <<"c">>>>}

TrailingKeys == {ID_ATTR, DATA_TESTID}

RECURSIVE Flatten(_)
Flatten(ps) == IF ps = <<>> THEN <<>> ELSE Head(ps) \o Flatten(Tail(ps))

\* the flat arrays of k pairs, and those followed by one trailing key where
\* the length allows it
AttrSeqsOfPairs(k) ==
    { Flatten(ps) \o t :
        ps \in [1..k -> KeyValues],
        t \in IF 2 * k + 1 <= MaxAttrLen
              THEN {<<>>} \cup {<<x>> : x \in TrailingKeys}
              ELSE {<<>>} }

AttrInputs ==
    {[defined |-> FALSE, items |-> <<>>]}
    \cup {[defined |-> TRUE, items |-> s] :
             s \in UNION {AttrSeqsOfPairs(k) : k \in 0..(MaxAttrLen \div 2)}}

NoResult == [stability |-> "none"]
NoResponse == [kind |-> "none"]
NoTree == [kind |-> "none"]
NoSnapshot == [kind |-> "null"]

\* the variables of a handler that is not the one under study
SelIdle ==
    /\ name = <<>>
    /\ role = <<>>
    /\ tagName = <<>>
    /\ attributes = [defined |-> FALSE, items |-> <<>>]
    /\ attrMap = <<>>
    /\ result = NoResult

IntIdle ==
    /\ allNodes = <<>>
    /\ rolesArg = [defined |-> FALSE, items |-> <<>>]
    /\ includeDisabled = FALSE
    /\ maxElements = 1
    /\ interactiveNodes = <<>>
    /\ limited = <<>>
    /\ settled = <<>>
    /\ completionOrder = <<>>
    /\ failedFetches = {}
    /\ elementsResponse = NoResponse

SumIdle ==
    /\ rawNode = NoTree
    /\ summarized = NoTree

MgrIdle ==
    /\ managerState = 0
    /\ connections = <<>>
    /\ calls = <<>>
    /\ overlapped = FALSE

TreeIdle ==
    /\ nodes = <<>>
    /\ maxDepth = 1
    /\ interestingOnly = TRUE
    /\ useFullTree = TRUE
    /\ snapshot = NoSnapshot
    /\ assembled = NoTree
    /\ response = NoResponse

----------------------------------------------------------------------------
(* The selector engine as a state machine: the inputs are drawn, then one  *)
(* call of buildSelectorFromRawNode returns the bundle.                    *)

InitSel ==
    /\ pc = "input"
    /\ name \in Names
    /\ role \in Roles
    /\ tagName \in Tags
    /\ attributes \in AttrInputs
    /\ attrMap = <<>>
    /\ result = NoResult
    /\ TreeIdle
    /\ SumIdle
    /\ IntIdle
    /\ MgrIdle

BuildSelector ==
    /\ pc = "input"
    /\ attrMap' = parseAttrs(attributes)
    /\ result' = buildSelectorFromRawNode(name, role, tagName, attributes)
    /\ pc' = "done"
    /\ UNCHANGED <<name, role, tagName, attributes, treeVars, sumVars, intVars, mgrVars>>

NextSel == BuildSelector

SpecSel == InitSel /\ [][NextSel]_vars

----------------------------------------------------------------------------
(* Properties of the selector engine.  They are stated over the inputs as  *)
(* drawn: the attribute map is read off the flat array directly, a key     *)
(* being in the map when it stands at an odd position (counting from 1)   *)
(* with an element after it, its value being the one after its last such  *)
(* occurrence.                                                             *)

PairPositions(k) ==
    {i \in 1..Len(attributes.items) :
        /\ i % 2 = 1
        /\ i + 1 <= Len(attributes.items)
        /\ attributes.items[i] = k}

InMap(k) == attributes.defined /\ PairPositions(k) # {}
ValueOf(k) == attributes.items[Max(PairPositions(k)) + 1]
NonEmptyInMap(k) == InMap(k) /\ ValueOf(k) # <<>>

\* the auto-generated identifiers as the documentation words them: a mat- or
\* ng- prefix, a purely numeric id, a UUID-like id (eight hex digits, a dash)
IsPrefix(p, s) == Len(s) >= Len(p) /\ SubSeq(s, 1, Len(p)) = p
PurelyNumeric(s) == s # <<>> /\ \A i \in 1..Len(s) : s[i] \in DigitChars
UuidLike(s) ==
    /\ Len(s) >= 9
    /\ \A i \in 1..8 : s[i] \in HexChars \cup {"A","B","C","D","E","F"}
    /\ s[9] = "-"
AutoGeneratedId(s) ==
    IsPrefix(<<"m","a","t","-">> (* mat- *), s) \/ IsPrefix(<<"n","g","-">> (* ng- *), s) \/ PurelyNumeric(s) \/ UuidLike(s)

\* what the expression in the code rejects: a leading mat- or ng- in any
\* case, any leading digit, eight leading hex digits and a dash
RejectedId(s) ==
    \/ IsPrefix(<<"m","a","t","-">> (* mat- *), toLowerCase(s))
    \/ IsPrefix(<<"n","g","-">> (* ng- *), toLowerCase(s))
    \/ (s # <<>> /\ Head(s) \in DigitChars)
    \/ UuidLike(s)

\* sub occurs in s
Contains(s, sub) ==
    \E i \in 0..(Len(s) - Len(sub)) : SubSeq(s, i + 1, i + Len(sub)) = sub

Has(f) == f \in DOMAIN result

AnyTestIdInMap == \E i \in 1..4 : InMap(TEST_ID_ATTRS[i])
AnyTestIdNonEmpty == \E i \in 1..4 : NonEmptyInMap(TEST_ID_ATTRS[i])

\* the bundle is the test-id bundle for the data-testid value v
IsTestIdTierFor(v) ==
    /\ result.stability = "high"
    /\ Has("testId") /\ result.testId = <<"[","d","a","t","a","-","t","e","s","t","i","d","=","\"">> (* [data-testid=" *) \o v \o <<"\"","]">> (* "] *)
    /\ ~Has("id")
    /\ result.recommended = <<"p","a","g","e",".","g","e","t","B","y","T","e","s","t","I","d","(","'">> (* page.getByTestId(' *) \o escapeStr(v) \o <<"'",")">> (* ') *)

\* C1 as stated: with data-testid and a non-auto-generated id both in the
\* attribute map, the bundle is the test-id bundle (stability high, testId
\* set, id absent, recommended targeting the test-id value).
C1_TestIdBeatsId_AsStated ==
    (pc = "done" /\ InMap(DATA_TESTID) /\ InMap(ID_ATTR)
        /\ ~AutoGeneratedId(ValueOf(ID_ATTR)))
    => IsTestIdTierFor(ValueOf(DATA_TESTID))

\* C1 amended: with a data-testid of non-empty value and a non-auto-generated
\* id both in the attribute map, the bundle is the test-id bundle.
C1_TestIdBeatsId ==
    (pc = "done" /\ NonEmptyInMap(DATA_TESTID) /\ InMap(ID_ATTR)
        /\ ~AutoGeneratedId(ValueOf(ID_ATTR)))
    => IsTestIdTierFor(ValueOf(DATA_TESTID))

C1_Witness ==
    /\ pc = "done"
    /\ NonEmptyInMap(DATA_TESTID) /\ NonEmptyInMap(ID_ATTR)
    /\ ValueOf(ID_ATTR) = <<"e","m","a","i","l","-","i","n","p","u","t">> (* email-input *)
    /\ result.recommended = <<"p","a","g","e",".","g","e","t","B","y","T","e","s","t","I","d","(","'","s","u","b","m","i","t","-","b","t","n","'",")">> (* page.getByTestId('submit-btn') *)

\* some locator of the bundle is built on the id value v
UsesId(v) ==
    \/ Has("id")
    \/ \E f \in {"css", "playwright", "cypress", "webdriverio", "recommended"} :
          Contains(result[f], <<"#">> \o v)
    \/ Contains(result.selenium, <<"B","y",".","I","D">> (* By.ID *))

\* C2 as stated: an id that is auto-generated (mat-/ng- prefix, purely
\* numeric, UUID-like) never gives the id tier; the bundle is the test-id
\* tier if a test-id attribute is present, otherwise tier 3 or 4.
C2_AutoIdRejected_AsStated ==
    (pc = "done" /\ InMap(ID_ATTR) /\ AutoGeneratedId(ValueOf(ID_ATTR)))
    => /\ ~UsesId(ValueOf(ID_ATTR))
       /\ AnyTestIdInMap => Has("testId")
       /\ ~AnyTestIdInMap => result.stability \in {"medium", "low"}

\* C2 amended: an auto-generated id never gives the id tier; the bundle is
\* the test-id tier if a test-id attribute with a non-empty value is present,
\* otherwise tier 3 or 4.
C2_AutoIdRejected ==
    (pc = "done" /\ InMap(ID_ATTR) /\ AutoGeneratedId(ValueOf(ID_ATTR)))
    => /\ ~UsesId(ValueOf(ID_ATTR))
       /\ AnyTestIdNonEmpty => Has("testId") /\ result.stability = "high"
       /\ ~AnyTestIdNonEmpty => result.stability \in {"medium", "low"}

C2_Witness ==
    /\ pc = "done"
    /\ InMap(ID_ATTR) /\ ValueOf(ID_ATTR) = <<"4","2">> (* 42 *)
    /\ ~AnyTestIdInMap
    /\ result.stability = "medium"

\* the bundle is the stable-id bundle for the id value v
IsStableIdTierFor(v) ==
    /\ result.stability = "high"
    /\ ~Has("testId")
    /\ Has("id") /\ result.id = <<"#">> \o v
    /\ result.css = <<"#">> \o v
    /\ result.playwright = <<"p","a","g","e",".","l","o","c","a","t","o","r","(","'","#">> (* page.locator('# *) \o v \o <<"'",")">> (* ') *)
    /\ result.selenium = <<"d","r","i","v","e","r",".","f","i","n","d","_","e","l","e","m","e","n","t","(","B","y",".","I","D",","," ","'">> (* driver.find_element(By.ID, ' *) \o escapeStr(v) \o <<"'",")">> (* ') *)
    /\ result.cypress = <<"c","y",".","g","e","t","(","'","#">> (* cy.get('# *) \o v \o <<"'",")">> (* ') *)
    /\ result.webdriverio = <<"$","(","'","#">> (* $('# *) \o v \o <<"'",")">> (* ') *)

TestIdTierApplies == AnyTestIdNonEmpty
StableIdTierApplies == NonEmptyInMap(ID_ATTR) /\ ~RejectedId(ValueOf(ID_ATTR))

\* the expected fragment for useful attribute k, given that it counts
Fragment(k) == <<"[">> \o k \o <<"=","\"">> (* =" *) \o ValueOf(k) \o <<"\"","]">> (* "] *)

SemanticCssOf(counts(_)) ==
    toLowerCase(tagName)
        \o (IF counts(<<"t","y","p","e">> (* type *)) THEN Fragment(<<"t","y","p","e">> (* type *)) ELSE <<>>)
        \o (IF counts(<<"n","a","m","e">> (* name *)) THEN Fragment(<<"n","a","m","e">> (* name *)) ELSE <<>>)
        \o (IF counts(<<"r","o","l","e">> (* role *)) THEN Fragment(<<"r","o","l","e">> (* role *)) ELSE <<>>)
        \o (IF counts(<<"p","l","a","c","e","h","o","l","d","e","r">> (* placeholder *)) THEN Fragment(<<"p","l","a","c","e","h","o","l","d","e","r">> (* placeholder *)) ELSE <<>>)

\* C4: when neither the test-id tier nor the stable-id tier applies, the
\* bundle is the role+name bundle (stability medium, recommended the
\* getByRole expression with the role unchanged and the name) exactly when
\* role and name are both non-empty, and the tier-4 bundle otherwise.
C4_RoleNameTier ==
    (pc = "done" /\ ~TestIdTierApplies /\ ~StableIdTierApplies)
    => /\ (role # <<>> /\ name # <<>>) <=> result.stability = "medium"
       /\ (role # <<>> /\ name # <<>>) =>
             /\ result.recommended =
                   <<"p","a","g","e",".","g","e","t","B","y","R","o","l","e","(","'">> (* page.getByRole(' *) \o role \o <<"'",","," ","{"," ","n","a","m","e",":"," ","'">> (* ', { name: ' *)
                       \o escapeStr(name) \o <<"'"," ","}",")">> (* ' }) *)
             /\ Has("aria")
       /\ (role = <<>> \/ name = <<>>) =>
             /\ result.stability = "low"
             /\ ~Has("aria")
             /\ result.recommended = <<"p","a","g","e",".","l","o","c","a","t","o","r","(","'">> (* page.locator(' *) \o result.css \o <<"'",")">> (* ') *)

C4_Witness ==
    /\ pc = "done"
    /\ ~attributes.defined
    /\ role = <<"l","i","n","k">> (* link *) /\ name = <<"S","u","b","m","i","t">> (* Submit *)
    /\ result.stability = "medium"
    /\ result.recommended = <<"p","a","g","e",".","g","e","t","B","y","R","o","l","e","(","'","l","i","n","k","'",","," ","{"," ","n","a","m","e",":"," ","'","S","u","b","m","i","t","'"," ","}",")">> (* page.getByRole('link', { name: 'Submit' }) *)

NoEarlierTier ==
    ~TestIdTierApplies /\ ~StableIdTierApplies /\ (role = <<>> \/ name = <<>>)

FirstTestId(counts(_)) ==
    TEST_ID_ATTRS[Min({i \in 1..4 : counts(TEST_ID_ATTRS[i])})]

TestIdLocatorsFor(k) ==
    /\ result.testId = <<"[">> \o k \o <<"=","\"">> (* =" *) \o ValueOf(k) \o <<"\"","]">> (* "] *)
    /\ result.css = result.testId
    /\ k = DATA_TESTID =>
          result.playwright = <<"p","a","g","e",".","g","e","t","B","y","T","e","s","t","I","d","(","'">> (* page.getByTestId(' *) \o escapeStr(ValueOf(k)) \o <<"'",")">> (* ') *)
    /\ k # DATA_TESTID =>
          result.playwright =
              <<"p","a","g","e",".","l","o","c","a","t","o","r","(","'","[">> (* page.locator('[ *) \o k \o <<"=","\"">> (* =" *) \o escapeStr(ValueOf(k)) \o <<"\"","]","'",")">> (* "]') *)

\* C6 as stated: in the test-id tier the locator is determined by the first
\* of data-testid, data-cy, data-test, data-qa that is a key of the map;
\* getByTestId only for data-testid, attribute equality for the alternates.
C6_FirstTestIdWins_AsStated ==
    (pc = "done" /\ Has("testId"))
    => TestIdLocatorsFor(FirstTestId(InMap))

\* C6 amended: ... the first of these that is a key of the map with a
\* non-empty value.
C6_FirstTestIdWins ==
    (pc = "done" /\ Has("testId"))
    => /\ AnyTestIdNonEmpty
       /\ TestIdLocatorsFor(FirstTestId(NonEmptyInMap))

C6_Witness ==
    /\ pc = "done"
    /\ NonEmptyInMap(DATA_CY) /\ NonEmptyInMap(DATA_QA) /\ ~InMap(DATA_TESTID)
    /\ result.playwright = <<"p","a","g","e",".","l","o","c","a","t","o","r","(","'","[","d","a","t","a","-","c","y","=","\"","c","y","1","\"","]","'",")">> (* page.locator('[data-cy="cy1"]') *)

Frameworks == {"css", "playwright", "selenium", "cypress", "webdriverio"}
QuoteChars == {"'", "\""}

\* number of quote characters of s that no backslash precedes
UnescapedQuotes(s) ==
    Cardinality({i \in 1..Len(s) :
                    s[i] \in QuoteChars /\ (i = 1 \/ s[i - 1] # "\\")})

\* s with its quote characters replaced by a character that needs no escaping
Neutral(s) == [i \in 1..Len(s) |-> IF s[i] \in QuoteChars THEN "_" ELSE s[i]]

NeutralAttributes ==
    [defined |-> attributes.defined,
     items |-> [i \in 1..Len(attributes.items) |-> Neutral(attributes.items[i])]]

\* C7: the quote characters of the embedded values are escaped in every
\* framework string: each string has exactly the unescaped quotes of its
\* template, i.e. as many as when the values hold no quote at all.
C7_QuotesEscaped ==
    pc = "done" =>
        LET plain == buildSelectorFromRawNode(Neutral(name), role, tagName,
                                              NeutralAttributes)
        IN  \A f \in Frameworks :
                UnescapedQuotes(result[f]) = UnescapedQuotes(plain[f])

\* C8: whichever tier wins, css, playwright, selenium, cypress and
\* webdriverio are defined, non-empty strings and stability is one of high,
\* medium, low.
C8_AllFrameworksPopulated ==
    pc = "done" =>
        /\ \A f \in Frameworks : Has(f) /\ result[f] # <<>>
        /\ result.stability \in {"high", "medium", "low"}

----------------------------------------------------------------------------
(* Accessibility-tree utilities.  A CdpAXNode is a record whose optional   *)
(* fields are in its domain only when present; node identifiers are        *)
(* opaque, compared for equality only, and modelled as numbers.  An        *)
(* expression that may be undefined is modelled as a set with at most one  *)
(* element.                                                                *)

\* node.f?.value for a CdpAXValue wrapper f
\* fault variant: x || d, an empty string gives way to the default too
NullishOr_Falsy(v, d) == IF v = {} \/ v = {<<>>} THEN d ELSE CHOOSE x \in v : TRUE

\* x ?? d
NullishOr(v, d) == IF v = {} THEN d ELSE CHOOSE x \in v : TRUE

WrapperValue(node, f) ==
    IF f \in DOMAIN node /\ "value" \in DOMAIN node[f] THEN {node[f].value} ELSE {}

\* fault variant: a property listed without a value reads as false
getPropertyValue_Defaulted(props, pname) ==
    LET hits == {i \in 1..Len(props) : props[i].name = pname}
    IN  IF hits = {} THEN {}
        ELSE IF "value" \in DOMAIN props[Min(hits)].value
             THEN {props[Min(hits)].value.value}
             ELSE {FALSE}

\* props.find((p) => p.name === name)?.value?.value
getPropertyValue(props, pname) ==
    LET hits == {i \in 1..Len(props) : props[i].name = pname}
    IN  IF hits = {} THEN {}
        ELSE IF "value" \in DOMAIN props[Min(hits)].value
             THEN {props[Min(hits)].value.value}
             ELSE {}

cdpAXNodeToSummary(node) ==
    LET props == IF "properties" \in DOMAIN node THEN node.properties ELSE <<>>
        roleV == WrapperValue(node, "role")
        nameV == WrapperValue(node, "name")
        opt == [ description      |-> WrapperValue(node, "description"),
                 value            |-> WrapperValue(node, "value"),
                 focused          |-> getPropertyValue(props, "focused"),
                 disabled         |-> getPropertyValue(props, "disabled"),
                 checked          |-> getPropertyValue(props, "checked"),
                 expanded         |-> getPropertyValue(props, "expanded"),
                 required         |-> getPropertyValue(props, "required"),
                 level            |-> getPropertyValue(props, "level"),
                 backendDOMNodeId |->
                     IF "backendDOMNodeId" \in DOMAIN node
                     THEN {node.backendDOMNodeId} ELSE {} ]
        present == {f \in DOMAIN opt : opt[f] # {}}
    IN  [f \in {"role", "name", "nodeId"} \cup present |->
            CASE f = "role" -> NullishOr(roleV, <<"u","n","k","n","o","w","n">> (* unknown *))
              [] f = "name" -> NullishOr(nameV, <<>>)
              [] f = "nodeId" -> node.nodeId
              [] OTHER -> CHOOSE v \in opt[f] : TRUE]

\* index.set(node.nodeId, node) for each node in list order: the last wins
buildTreeIndex(ns) ==
    LET ids == {ns[i].nodeId : i \in 1..Len(ns)}
    IN  [id \in ids |-> ns[Max({i \in 1..Len(ns) : ns[i].nodeId = id})]]

\* summary.children = children
WithChildren(summary, children) ==
    [f \in (DOMAIN summary) \cup {"children"} |->
        IF f = "children" THEN children ELSE summary[f]]

\* const { children, ...rest } = node
WithoutChildren(summary) == [f \in (DOMAIN summary) \ {"children"} |-> summary[f]]

\* fault variant: the depth test lets one more level through
RECURSIVE assembleTree_OneLevelMore(_, _, _, _)
assembleTree_OneLevelMore(node, index, depth, maxD) ==
    LET summary == cdpAXNodeToSummary(node)
    IN  IF depth > maxD \/ "childIds" \notin DOMAIN node \/ Len(node.childIds) = 0
        THEN summary
        ELSE LET kept == SelectSeq(node.childIds,
                                   LAMBDA c : c \in DOMAIN index /\ ~index[c].ignored)
                 children == [i \in 1..Len(kept) |->
                                 assembleTree_OneLevelMore(index[kept[i]], index, depth + 1, maxD)]
             IN  IF Len(children) > 0 THEN WithChildren(summary, children) ELSE summary

\* fault variant: an ignored child is assembled like any other
RECURSIVE assembleTree_KeepIgnored(_, _, _, _)
assembleTree_KeepIgnored(node, index, depth, maxD) ==
    LET summary == cdpAXNodeToSummary(node)
    IN  IF depth >= maxD \/ "childIds" \notin DOMAIN node \/ Len(node.childIds) = 0
        THEN summary
        ELSE LET kept == SelectSeq(node.childIds, LAMBDA c : c \in DOMAIN index)
                 children == [i \in 1..Len(kept) |->
                                 assembleTree_KeepIgnored(index[kept[i]], index, depth + 1, maxD)]
             IN  IF Len(children) > 0 THEN WithChildren(summary, children) ELSE summary

\* fault variant: the children list is attached even when it is empty
RECURSIVE assembleTree_AlwaysChildren(_, _, _, _)
assembleTree_AlwaysChildren(node, index, depth, maxD) ==
    LET summary == cdpAXNodeToSummary(node)
    IN  IF depth >= maxD \/ "childIds" \notin DOMAIN node \/ Len(node.childIds) = 0
        THEN summary
        ELSE LET kept == SelectSeq(node.childIds,
                                   LAMBDA c : c \in DOMAIN index /\ ~index[c].ignored)
                 children == [i \in 1..Len(kept) |->
                                 assembleTree_AlwaysChildren(index[kept[i]], index, depth + 1, maxD)]
             IN  WithChildren(summary, children)

RECURSIVE assembleTree(_, _, _, _)
assembleTree(node, index, depth, maxD) ==
    LET summary == cdpAXNodeToSummary(node)
    IN  IF depth >= maxD \/ "childIds" \notin DOMAIN node \/ Len(node.childIds) = 0
        THEN summary
        ELSE LET kept == SelectSeq(node.childIds,
                                   LAMBDA c : c \in DOMAIN index /\ ~index[c].ignored)
                 children == [i \in 1..Len(kept) |->
                                 assembleTree(index[kept[i]], index, depth + 1, maxD)]
             IN  IF Len(children) > 0 THEN WithChildren(summary, children) ELSE summary

\* fault variant: the cut comes one level too late
RECURSIVE pruneToDepth_OffByOne(_, _)
pruneToDepth_OffByOne(node, maxD) ==
    IF maxD <= 0 \/ "children" \notin DOMAIN node
    THEN WithoutChildren(node)
    ELSE WithChildren(node, [i \in 1..Len(node.children) |->
                                pruneToDepth_OffByOne(node.children[i], maxD - 1)])

RECURSIVE pruneToDepth(_, _)
pruneToDepth(node, maxD) ==
    IF maxD <= 1 \/ "children" \notin DOMAIN node
    THEN WithoutChildren(node)
    ELSE WithChildren(node, [i \in 1..Len(node.children) |->
                                pruneToDepth(node.children[i], maxD - 1)])

RECURSIVE SumSeq(_)
SumSeq(q) == IF q = <<>> THEN 0 ELSE Head(q) + SumSeq(Tail(q))

RECURSIVE countNodes(_)
countNodes(node) ==
    IF "children" \notin DOMAIN node \/ Len(node.children) = 0 THEN 1
    ELSE 1 + SumSeq([i \in 1..Len(node.children) |-> countNodes(node.children[i])])

----------------------------------------------------------------------------
(* get_accessibility_tree with useFullTree = true, from the node list of   *)
(* the Accessibility.getFullAXTree reply to the payload of the result.     *)

\* fault variant: the list is used as it came
FilterNodes_Unfiltered(ns, interesting) == ns

\* interestingOnly ? nodes.filter((n) => !n.ignored) : nodes
FilterNodes(ns, interesting) ==
    IF interesting THEN SelectSeq(ns, LAMBDA n : ~n.ignored) ELSE ns

\* fault variant: only a node without parentId is a root candidate
RootCandidates_ParentlessOnly(filtered) ==
    {i \in 1..Len(filtered) : "parentId" \notin DOMAIN filtered[i]}

\* positions of the root candidates: no parentId, or a parentId that is not
\* the nodeId of a node of the filtered list
RootCandidates(filtered) ==
    LET nodeIds == {filtered[i].nodeId : i \in 1..Len(filtered)}
    IN  {i \in 1..Len(filtered) :
            "parentId" \notin DOMAIN filtered[i] \/ filtered[i].parentId \notin nodeIds}

\* the local assembled: assembleTree from the first root candidate, when
\* there is one
FullTreeAssembled(ns, maxD, interesting) ==
    LET filtered == FilterNodes(ns, interesting)
        cands == RootCandidates(filtered)
    IN  IF cands = {}
        THEN NoTree
        ELSE assembleTree(filtered[Min(cands)], buildTreeIndex(filtered), 0, maxD)

FullTreeResponse(ns, maxD, interesting) ==
    LET tree == FullTreeAssembled(ns, maxD, interesting)
    IN  IF tree = NoTree
        THEN [kind |-> "empty", nodeCount |-> 0]
        ELSE [ kind            |-> "tree",
               nodeCount       |-> countNodes(tree),
               maxDepth        |-> maxD,
               interestingOnly |-> interesting,
               tree            |-> pruneToDepth(tree, maxD) ]

RECURSIVE countSnapshotNodes(_)
countSnapshotNodes(node) ==
    IF "children" \notin DOMAIN node \/ Len(node.children) = 0
    THEN 1
    ELSE 1 + SumSeq([i \in 1..Len(node.children) |-> countSnapshotNodes(node.children[i])])

\* get_accessibility_tree with useFullTree = false: the snapshot of
\* page.accessibility.snapshot is the tree returned
SnapshotResponse(snap, maxD, interesting) ==
    IF snap = NoSnapshot
    THEN [kind |-> "empty", nodeCount |-> 0]
    ELSE [ kind            |-> "tree",
           nodeCount       |-> countSnapshotNodes(snap),
           maxDepth        |-> maxD,
           interestingOnly |-> interesting,
           tree            |-> snap ]

----------------------------------------------------------------------------
(* Snapshots drawn: up to MaxNodes nodes with identifiers 1..n in list     *)
(* order, any parent reference (none, an earlier node, a later node, the   *)
(* node itself, references that close a cycle), any ignored flags, and     *)
(* child lists that name the nodes referring to the node as their parent.  *)

RECURSIVE Ascending(_)
Ascending(S) == IF S = {} THEN <<>> ELSE <<Min(S)>> \o Ascending(S \ {Min(S)})

RECURSIVE Descending(_)
Descending(S) == IF S = {} THEN <<>> ELSE <<Max(S)>> \o Descending(S \ {Max(S)})

\* an identifier no node of a snapshot has
DanglingId == MaxNodes + 1

\* plain: child lists in list order; reversed: in the opposite order;
\* dangling: every child list starts with an identifier of no node;
\* sparse: a node without children has no childIds field at all;
\* cyclic: every child list ends with the parent of the node, or with the
\* node itself when it has no parent
Shapes == {"plain", "reversed", "dangling", "sparse", "cyclic"}

ChildIdsOf(i, n, parent, shape) ==
    LET kids == {j \in 1..n : parent[j] = i}
    IN  CASE shape = "reversed" -> Descending(kids)
          [] shape = "dangling" -> <<DanglingId>> \o Ascending(kids)
          [] shape = "cyclic" -> Ascending(kids) \o <<IF parent[i] # 0 THEN parent[i] ELSE i>>
          [] OTHER -> Ascending(kids)

SnapshotNode(i, n, parent, ign, shape) ==
    LET kids == ChildIdsOf(i, n, parent, shape)
        dom == {"nodeId", "ignored", "role", "name"}
                 \cup (IF parent[i] # 0 THEN {"parentId"} ELSE {})
                 \cup (IF shape = "sparse" /\ kids = <<>> THEN {} ELSE {"childIds"})
    IN  [f \in dom |->
            CASE f = "nodeId" -> i
              [] f = "ignored" -> ign[i]
              [] f = "role" -> [type |-> "role", value |-> <<"g","e","n","e","r","i","c">> (* generic *)]
              [] f = "name" -> [type |-> "computedString", value |-> <<"n">>]
              [] f = "parentId" -> parent[i]
              [] OTHER -> kids]

Snapshot(n, parent, ign, shape) == [i \in 1..n |-> SnapshotNode(i, n, parent, ign, shape)]

\* a page.accessibility.snapshot tree: height levels, every node above the
\* last level with width children
RECURSIVE SerializedAXNode(_, _)
SerializedAXNode(height, width) ==
    IF height <= 1
    THEN [role |-> <<"b","u","t","t","o","n">> (* button *), name |-> <<"n">>]
    ELSE [role |-> <<"g","e","n","e","r","i","c">> (* generic *), name |-> <<"n">>,
          children |-> [i \in 1..width |-> SerializedAXNode(height - 1, width)]]

SnapshotWidths == 1..2

InitTree ==
    /\ pc = "input"
    /\ useFullTree \in BOOLEAN
    /\ IF useFullTree
       THEN /\ \E n \in 1..MaxNodes :
                  \E parent \in [1..n -> 0..n], ign \in [1..n -> BOOLEAN], shape \in Shapes :
                     nodes = Snapshot(n, parent, ign, shape)
            /\ snapshot = NoSnapshot
       ELSE /\ nodes = <<>>
            /\ \/ snapshot = NoSnapshot
               \/ \E height \in 1..MaxSnapshotHeight, width \in SnapshotWidths :
                     snapshot = SerializedAXNode(height, width)
    /\ maxDepth \in 1..MaxDepthArg
    /\ interestingOnly \in BOOLEAN
    /\ assembled = NoTree
    /\ response = NoResponse
    /\ SelIdle
    /\ SumIdle
    /\ IntIdle
    /\ MgrIdle

GetFullTree ==
    /\ pc = "input"
    /\ useFullTree
    /\ assembled' = FullTreeAssembled(nodes, maxDepth, interestingOnly)
    /\ response' = FullTreeResponse(nodes, maxDepth, interestingOnly)
    /\ pc' = "done"
    /\ UNCHANGED <<nodes, maxDepth, interestingOnly, useFullTree, snapshot, selVars, sumVars, intVars, mgrVars>>

\* the branch of useFullTree = false
GetSnapshotTree ==
    /\ pc = "input"
    /\ ~useFullTree
    /\ response' = SnapshotResponse(snapshot, maxDepth, interestingOnly)
    /\ pc' = "done"
    /\ UNCHANGED <<nodes, maxDepth, interestingOnly, useFullTree, snapshot, assembled, selVars, sumVars, intVars, mgrVars>>

NextTree == GetFullTree \/ GetSnapshotTree

SpecTree == InitTree /\ [][NextTree]_vars

----------------------------------------------------------------------------
(* Properties of the assembled tree. *)

RECURSIVE TreeIds(_)
TreeIds(t) ==
    {t.nodeId} \cup
        (IF "children" \in DOMAIN t
         THEN UNION {TreeIds(t.children[i]) : i \in 1..Len(t.children)}
         ELSE {})

AllIds == {nodes[i].nodeId : i \in 1..Len(nodes)}
IgnoredIds == {nodes[i].nodeId : i \in {j \in 1..Len(nodes) : nodes[j].ignored}}
NodeOf(id) == nodes[CHOOSE i \in 1..Len(nodes) : nodes[i].nodeId = id]
ChildSet(id) ==
    IF "childIds" \in DOMAIN NodeOf(id)
    THEN {NodeOf(id).childIds[i] : i \in 1..Len(NodeOf(id).childIds)} \cap AllIds
    ELSE {}

\* the nodes reached from the nodes of S along child identifiers, S included;
\* with clean, a node counts only if neither it nor a node before it is ignored
RECURSIVE Closure(_, _)
Closure(S, clean) ==
    LET ok == {x \in S : ~clean \/ x \notin IgnoredIds}
        more == ok \cup {c \in UNION {ChildSet(x) : x \in ok} :
                            ~clean \/ c \notin IgnoredIds}
    IN  IF more = ok /\ ok = S THEN S ELSE Closure(more, clean)

\* the snapshot is an ordinary tree: one node without parent, the snapshot
\* root, and every node reached from it along child identifiers
SnapshotRoots == {id \in AllIds : "parentId" \notin DOMAIN NodeOf(id)}
OrdinaryTree ==
    /\ Cardinality(SnapshotRoots) = 1
    /\ Closure(SnapshotRoots, FALSE) = AllIds

\* the nodes with a path from the snapshot root on which no node is ignored
Visible == Closure(SnapshotRoots, TRUE)

\* C10 as stated: the tree built from the filtered list holds no ignored
\* node and no node whose every path from the snapshot root passes through
\* an ignored node, whatever the order of the list.
C10_IgnoredExcluded_AsStated ==
    (pc = "done" /\ useFullTree /\ interestingOnly /\ OrdinaryTree /\ response.kind = "tree")
    => TreeIds(response.tree) \subseteq Visible

\* C10 amended: the tree built from the filtered list holds no ignored node
\* and no node whose every path from the root of the tree, the root selected
\* from the filtered list, passes through an ignored node.
C10_IgnoredExcluded ==
    (pc = "done" /\ useFullTree /\ interestingOnly /\ response.kind = "tree")
    => /\ TreeIds(response.tree) \cap IgnoredIds = {}
       /\ TreeIds(response.tree) \subseteq Closure({response.tree.nodeId}, TRUE)

C10_Witness ==
    /\ pc = "done" /\ useFullTree /\ interestingOnly /\ OrdinaryTree
    /\ response.kind = "tree"
    /\ IgnoredIds # {}
    /\ response.tree.nodeId \in SnapshotRoots
    /\ \E id \in AllIds \ IgnoredIds : id \notin TreeIds(response.tree)

----------------------------------------------------------------------------
(* Root selection, assembly and pruning, stated from the snapshot alone. *)

\* the positions of the snapshot that the filter keeps, and their identifiers
KeptPositions == {i \in 1..Len(nodes) : ~interestingOnly \/ ~nodes[i].ignored}
KeptIds == {nodes[i].nodeId : i \in KeptPositions}

\* the kept positions whose parent identifier is absent or names no kept node
ParentlessPositions ==
    {i \in KeptPositions :
        "parentId" \notin DOMAIN nodes[i] \/ nodes[i].parentId \notin KeptIds}

\* C11: in full-tree mode the root handed to assembleTree is the first kept
\* node whose parent identifier is absent or names no kept node; when there
\* is none the result is the empty one (no tree, nodeCount 0) and nothing
\* is assembled.
C11_RootSelection ==
    (pc = "done" /\ useFullTree)
    => IF ParentlessPositions = {}
       THEN /\ response.kind = "empty"
            /\ response.nodeCount = 0
            /\ "tree" \notin DOMAIN response
            /\ assembled = NoTree
       ELSE /\ response.kind = "tree"
            /\ assembled # NoTree
            /\ assembled.nodeId = nodes[Min(ParentlessPositions)].nodeId
            /\ response.tree.nodeId = nodes[Min(ParentlessPositions)].nodeId

\* the root is not the first node of the list, and it names a parent that
\* the filter removed
C11_Witness ==
    /\ pc = "done" /\ useFullTree
    /\ response.kind = "tree"
    /\ Min(ParentlessPositions) > 1
    /\ ~nodes[1].ignored
    /\ "parentId" \in DOMAIN nodes[Min(ParentlessPositions)]
    /\ assembled.nodeId = nodes[Min(ParentlessPositions)].nodeId

\* the fields of a summary other than children
Fields(t) == [f \in (DOMAIN t) \ {"children"} |-> t[f]]

\* the identifiers of the children of a summary, in order
ChildIdsIn(t) ==
    IF "children" \in DOMAIN t
    THEN [i \in 1..Len(t.children) |-> t.children[i].nodeId]
    ELSE <<>>

\* the child identifiers of a raw node as listed
RawChildIds(id) ==
    IF "childIds" \in DOMAIN NodeOf(id) THEN NodeOf(id).childIds ELSE <<>>

\* those of them that name a kept node that is not ignored, in listed order
ExpectedChildIds(id) ==
    SelectSeq(RawChildIds(id), LAMBDA c : c \in KeptIds /\ c \notin IgnoredIds)

RECURSIVE AssembledAsClaimed(_, _)
AssembledAsClaimed(t, depth) ==
    /\ Fields(t) = cdpAXNodeToSummary(NodeOf(t.nodeId))
    /\ IF depth < maxDepth
       THEN /\ ChildIdsIn(t) = ExpectedChildIds(t.nodeId)
            /\ \A i \in 1..Len(ChildIdsIn(t)) : AssembledAsClaimed(t.children[i], depth + 1)
       ELSE "children" \notin DOMAIN t

\* C12: a node that assembleTree reaches at a depth below maxDepth has as
\* children the assembled summaries of those of its child identifiers that
\* are in the index and not ignored, in child-id order; an identifier
\* absent from the index is skipped; a node at depth >= maxDepth has no
\* children.
C12_ChildrenAssembled ==
    (pc = "done" /\ useFullTree /\ assembled # NoTree)
    => AssembledAsClaimed(assembled, 0)

\* a dangling identifier is skipped under the root and a child at depth
\* maxDepth is cut although it has children to assemble
C12_Witness ==
    /\ pc = "done" /\ useFullTree /\ assembled # NoTree
    /\ maxDepth = 1
    /\ \E k \in 1..Len(RawChildIds(assembled.nodeId)) :
          RawChildIds(assembled.nodeId)[k] \notin AllIds
    /\ \E i \in 1..Len(ChildIdsIn(assembled)) :
          /\ "children" \notin DOMAIN assembled.children[i]
          /\ ExpectedChildIds(assembled.children[i].nodeId) # <<>>

RECURSIVE Subtrees(_)
Subtrees(t) ==
    {t} \cup
        (IF "children" \in DOMAIN t
         THEN UNION {Subtrees(t.children[i]) : i \in 1..Len(t.children)}
         ELSE {})

NoEmptyChildren(t) == \A s \in Subtrees(t) : "children" \in DOMAIN s => Len(s.children) > 0

\* the maxDepth arguments pruneToDepth is tried with
PruneDepths == 0..(MaxDepthArg + 2)

\* C13: in the output of assembleTree, and of pruneToDepth applied to it
\* with any maxDepth, the children field of a summary is absent or a
\* non-empty list; a node whose child identifiers are all dangling or
\* ignored has no children field.
C13_ChildrenAbsentOrNonEmpty ==
    (pc = "done" /\ useFullTree /\ assembled # NoTree)
    => /\ NoEmptyChildren(assembled)
       /\ NoEmptyChildren(response.tree)
       /\ \A d \in PruneDepths : NoEmptyChildren(pruneToDepth(assembled, d))
       /\ \A s \in Subtrees(assembled) :
             ExpectedChildIds(s.nodeId) = <<>> => "children" \notin DOMAIN s

\* the root lists child identifiers, all of them dangling or ignored
C13_Witness ==
    /\ pc = "done" /\ useFullTree /\ assembled # NoTree
    /\ Len(RawChildIds(assembled.nodeId)) >= 2
    /\ ExpectedChildIds(assembled.nodeId) = <<>>
    /\ "children" \notin DOMAIN assembled
    /\ "children" \notin DOMAIN response.tree

RECURSIVE Height(_)
Height(t) ==
    IF "children" \in DOMAIN t /\ Len(t.children) > 0
    THEN 1 + Max({Height(t.children[i]) : i \in 1..Len(t.children)})
    ELSE 1

\* every node of a tree as the pair of its path from the root (the child
\* positions taken) and its fields
RECURSIVE Paths(_)
Paths(t) ==
    {<<(<<>>), Fields(t)>>} \cup
        (IF "children" \in DOMAIN t
         THEN UNION {{<<(<<i>> \o pl[1]), pl[2]>> : pl \in Paths(t.children[i])} :
                        i \in 1..Len(t.children)}
         ELSE {})

\* C14: pruneToDepth(t, d) is t cut to its top d levels, the root being
\* level 1: for d <= 1 the root without children, for 1 < d < height(t)
\* the nodes of levels 1..d with their fields and order, for d >= height(t)
\* the tree t itself.
C14_PruneTruncates ==
    (pc = "done" /\ useFullTree /\ assembled # NoTree)
    => \A d \in PruneDepths :
          LET pruned == pruneToDepth(assembled, d)
          IN  /\ d <= 1 => pruned = Fields(assembled)
              /\ (1 < d /\ d < Height(assembled))
                    => /\ Paths(pruned) = {pl \in Paths(assembled) : Len(pl[1]) < d}
                       /\ NoEmptyChildren(pruned)
                       /\ Height(pruned) = d
              /\ d >= Height(assembled) => pruned = assembled

\* a tree of three levels or more, so that each of the three cases occurs
C14_Witness ==
    /\ pc = "done" /\ useFullTree /\ assembled # NoTree
    /\ Height(assembled) >= 3
    /\ Height(pruneToDepth(assembled, 2)) = 2
    /\ pruneToDepth(assembled, Height(assembled)) = assembled

\* C15: the tree returned by get_accessibility_tree has at most maxDepth
\* levels, the root being level 1, when it is assembled from the CDP full
\* tree and when it is the page.accessibility.snapshot tree.
C15_DepthBounded ==
    (pc = "done" /\ response.kind = "tree") => Height(response.tree) <= maxDepth

\* the same for the full-tree branch alone
C15_FullTreeDepthBounded ==
    (pc = "done" /\ useFullTree /\ response.kind = "tree")
    => Height(response.tree) <= maxDepth

----------------------------------------------------------------------------
(* cdpAXNodeToSummary on its own: a raw node is drawn with each wrapper    *)
(* absent, present without a value (CdpAXValue.value is optional) or       *)
(* present with a value, and likewise each property of the list.           *)

PropOrder == <<"focused", "disabled", "checked", "expanded", "required", "level">>
PropNames == {PropOrder[i] : i \in 1..Len(PropOrder)}

PropType ==
    [ focused |-> "booleanOrUndefined", disabled |-> "boolean", checked |-> "tristate",
      expanded |-> "booleanOrUndefined", required |-> "boolean", level |-> "integer" ]

PropValue ==
    [ focused |-> TRUE, disabled |-> FALSE, checked |-> <<"m","i","x","e","d">> (* mixed *),
      expanded |-> FALSE, required |-> TRUE, level |-> 2 ]

\* absent: no wrapper; bare: a wrapper without value; the others: the value
WrapperStates == {"absent", "bare", "value"}

AXValue(type, state, v) ==
    IF state = "bare" THEN [type |-> type] ELSE [type |-> type, value |-> v]

\* a property that cdpAXNodeToSummary does not read, first in every list
OtherProperty == [name |-> "focusable", value |-> [type |-> "booleanOrUndefined", value |-> TRUE]]

PropertiesOf(st) ==
    LET listed == SelectSeq(PropOrder, LAMBDA p : st[p] # "absent")
    IN  <<OtherProperty>> \o
        [i \in 1..Len(listed) |->
            [name |-> listed[i],
             value |-> AXValue(PropType[listed[i]], st[listed[i]], PropValue[listed[i]])]]

RoleStates == {"absent", "bare", "empty", "value"}

RawNode(roleSt, nameSt, descSt, valueSt, st, backend) ==
    LET dom == {"nodeId", "ignored"}
                 \cup (IF roleSt # "absent" THEN {"role"} ELSE {})
                 \cup (IF nameSt # "absent" THEN {"name"} ELSE {})
                 \cup (IF descSt # "absent" THEN {"description"} ELSE {})
                 \cup (IF valueSt # "absent" THEN {"value"} ELSE {})
                 \cup (IF \E p \in PropNames : st[p] # "absent" THEN {"properties"} ELSE {})
                 \cup (IF backend THEN {"backendDOMNodeId"} ELSE {})
    IN  [f \in dom |->
            CASE f = "nodeId" -> 1
              [] f = "ignored" -> FALSE
              [] f = "role" ->
                    AXValue("role", roleSt, IF roleSt = "empty" THEN <<>> ELSE <<"b","u","t","t","o","n">> (* button *))
              [] f = "name" ->
                    AXValue("computedString", nameSt, IF nameSt = "empty" THEN <<>> ELSE <<"S","u","b","m","i","t">> (* Submit *))
              [] f = "description" -> AXValue("computedString", descSt, <<>>)
              [] f = "value" -> AXValue("string", valueSt, <<"v">>)
              [] f = "properties" -> PropertiesOf(st)
              [] OTHER -> 10]

InitSum ==
    /\ pc = "input"
    /\ \E roleSt \in RoleStates, nameSt \in RoleStates,
          descSt \in WrapperStates, valueSt \in WrapperStates,
          st \in [PropNames -> WrapperStates], backend \in BOOLEAN :
             rawNode = RawNode(roleSt, nameSt, descSt, valueSt, st, backend)
    /\ summarized = NoTree
    /\ SelIdle
    /\ TreeIdle
    /\ IntIdle
    /\ MgrIdle

Summarize ==
    /\ pc = "input"
    /\ summarized' = cdpAXNodeToSummary(rawNode)
    /\ pc' = "done"
    /\ UNCHANGED <<rawNode, selVars, treeVars, intVars, mgrVars>>

NextSum == Summarize

SpecSum == InitSum /\ [][NextSum]_vars

----------------------------------------------------------------------------
(* Properties of the summary. *)

WrapperFields == {"description", "value"}
OptionalFields == WrapperFields \cup PropNames \cup {"backendDOMNodeId"}

\* the first property of the name in the raw list, as a set of at most one
FirstProperty(p) ==
    IF "properties" \notin DOMAIN rawNode THEN {}
    ELSE LET hits == {i \in 1..Len(rawNode.properties) : rawNode.properties[i].name = p}
         IN  IF hits = {} THEN {}
             ELSE {rawNode.properties[CHOOSE i \in hits : \A j \in hits : i <= j].value}

\* the source of an optional field on the raw node: the wrapper, the
\* wrapper of the property, or the backend reference itself
SourceOf(f) ==
    CASE f \in WrapperFields -> IF f \in DOMAIN rawNode THEN {rawNode[f]} ELSE {}
      [] f \in PropNames -> FirstProperty(f)
      [] OTHER -> IF f \in DOMAIN rawNode THEN {[value |-> rawNode[f]]} ELSE {}

SourcePresent(f) == SourceOf(f) # {}
SourceHasValue(f) == \E w \in SourceOf(f) : "value" \in DOMAIN w
SourceValue(f) == (CHOOSE w \in SourceOf(f) : TRUE).value

\* C16 as stated: the summary has no children field, and each optional
\* field is present iff its wrapper or property is present on the raw node,
\* never with a substituted default.
C16_OptionalFields_AsStated ==
    pc = "done" /\ rawNode # NoTree
    => /\ "children" \notin DOMAIN summarized
       /\ \A f \in OptionalFields : f \in DOMAIN summarized <=> SourcePresent(f)

\* C16 amended: the summary has no children field, and each optional field
\* is present iff its wrapper or property is present on the raw node and
\* carries a value; the field then holds that value.
C16_OptionalFields ==
    pc = "done" /\ rawNode # NoTree
    => /\ "children" \notin DOMAIN summarized
       /\ DOMAIN summarized \subseteq {"role", "name", "nodeId"} \cup OptionalFields
       /\ \A f \in OptionalFields :
             /\ f \in DOMAIN summarized <=> SourceHasValue(f)
             /\ f \in DOMAIN summarized => summarized[f] = SourceValue(f)

\* a wrapper and a property without a value, and properties whose value is
\* false, next to fields that are absent altogether
C16_Witness ==
    /\ pc = "done" /\ rawNode # NoTree
    /\ SourcePresent("description") /\ ~SourceHasValue("description")
    /\ SourcePresent("focused") /\ ~SourceHasValue("focused")
    /\ "disabled" \in DOMAIN summarized /\ summarized.disabled = FALSE
    /\ "value" \in DOMAIN summarized
    /\ ~SourcePresent("level") /\ "level" \notin DOMAIN summarized
    /\ "description" \notin DOMAIN summarized

\* the raw role and the raw name: node.role?.value and node.name?.value, as
\* a set of at most one string
RawString(f) ==
    IF f \in DOMAIN rawNode /\ "value" \in DOMAIN rawNode[f] THEN {rawNode[f].value} ELSE {}

\* C17: the role of the summary is "unknown" exactly when the raw role is
\* absent, an empty raw role stays empty; the name is the empty string
\* when the raw name is absent and the raw name otherwise.
C17_RoleAndNameDefaults ==
    pc = "done" /\ rawNode # NoTree
    => /\ summarized.role = <<"u","n","k","n","o","w","n">> (* unknown *) <=> RawString("role") = {}
       /\ RawString("role") # {} => RawString("role") = {summarized.role}
       /\ RawString("name") = {} => summarized.name = <<>>
       /\ RawString("name") # {} => RawString("name") = {summarized.name}

\* an empty raw role next to an absent raw name
C17_Witness ==
    /\ pc = "done" /\ rawNode # NoTree
    /\ RawString("role") = {<<>>}
    /\ summarized.role = <<>>
    /\ "name" \notin DOMAIN rawNode
    /\ summarized.name = <<>>

----------------------------------------------------------------------------
(* Properties of the attribute map. *)

\* the keys at the paired positions of the flat array
PairedKeys ==
    {attributes.items[i] : i \in {j \in 1..Len(attributes.items) :
                                     j % 2 = 1 /\ j + 1 <= Len(attributes.items)}}

AllItems == {attributes.items[i] : i \in 1..Len(attributes.items)}

----------------------------------------------------------------------------
(* get_interactive_elements: the node list is filtered and limited, one    *)
(* async callback per node of the limited list is started, and Promise.all *)
(* gathers what the callbacks resolve to.  A callback for a node without   *)
(* backend reference resolves without a fetch; the others each await one   *)
(* DOM.describeNode reply, and the replies arrive in any order.            *)

INTERACTIVE_ROLES ==
    << <<"b","u","t","t","o","n">> (* button *), <<"l","i","n","k">> (* link *), <<"t","e","x","t","b","o","x">> (* textbox *), <<"s","e","a","r","c","h","b","o","x">> (* searchbox *), <<"c","o","m","b","o","b","o","x">> (* combobox *), <<"l","i","s","t","b","o","x">> (* listbox *), <<"o","p","t","i","o","n">> (* option *),
       <<"c","h","e","c","k","b","o","x">> (* checkbox *), <<"r","a","d","i","o">> (* radio *), <<"s","w","i","t","c","h">> (* switch *), <<"s","l","i","d","e","r">> (* slider *), <<"s","p","i","n","b","u","t","t","o","n">> (* spinbutton *), <<"m","e","n","u","i","t","e","m">> (* menuitem *), <<"t","a","b">> (* tab *),
       <<"t","r","e","e","i","t","e","m">> (* treeitem *), <<"g","r","i","d","c","e","l","l">> (* gridcell *), <<"r","o","w","h","e","a","d","e","r">> (* rowheader *), <<"c","o","l","u","m","n","h","e","a","d","e","r">> (* columnheader *), <<"p","r","o","g","r","e","s","s","b","a","r">> (* progressbar *),
       <<"s","c","r","o","l","l","b","a","r">> (* scrollbar *) >>

SeqToSet(q) == {q[i] : i \in 1..Len(q)}

\* the elements of a Set in insertion order
RECURSIVE InsertionOrder(_, _)
InsertionOrder(q, seen) ==
    IF q = <<>> THEN <<>>
    ELSE IF Head(q) \in seen THEN InsertionOrder(Tail(q), seen)
         ELSE <<Head(q)>> \o InsertionOrder(Tail(q), seen \cup {Head(q)})

\* args.roles ? new Set(args.roles.map((r) => r.toLowerCase())) : INTERACTIVE_ROLES
TargetRoles(rolesA) ==
    IF rolesA.defined
    THEN InsertionOrder([i \in 1..Len(rolesA.items) |-> toLowerCase(rolesA.items[i])], {})
    ELSE INTERACTIVE_ROLES

\* disabledProp?.value?.value === true
DisabledIsTrue(node) ==
    LET props == IF "properties" \in DOMAIN node THEN node.properties ELSE <<>>
    IN  getPropertyValue(props, "disabled") = {TRUE}

\* fault variant: the role is compared as it is, not lower-cased
IsInteractive_CaseSensitive(node, targetRoles, inclDisabled) ==
    /\ ~node.ignored
    /\ NullishOr(WrapperValue(node, "role"), <<>>) \in SeqToSet(targetRoles)
    /\ inclDisabled \/ ~DisabledIsTrue(node)

\* the predicate of allNodes.filter
IsInteractive(node, targetRoles, inclDisabled) ==
    /\ ~node.ignored
    /\ toLowerCase(NullishOr(WrapperValue(node, "role"), <<>>)) \in SeqToSet(targetRoles)
    /\ inclDisabled \/ ~DisabledIsTrue(node)

\* interactiveNodes.slice(0, maxElements)
Slice(q, n) == SubSeq(q, 1, Min({n, Len(q)}))

\* the fields of base; backendDOMNodeId is undefined, and so not in the
\* payload, when the node has none
BaseResult(node) ==
    LET dom == {"role", "name", "nodeId", "axProperties"}
                 \cup (IF "backendDOMNodeId" \in DOMAIN node THEN {"backendDOMNodeId"} ELSE {})
    IN  [f \in dom |->
            CASE f = "role" -> NullishOr(WrapperValue(node, "role"), <<>>)
              [] f = "name" -> NullishOr(WrapperValue(node, "name"), <<>>)
              [] f = "nodeId" -> node.nodeId
              [] f = "axProperties" -> cdpAXNodeToSummary(node)
              [] OTHER -> node.backendDOMNodeId]

Extend(rec, more) ==
    [f \in (DOMAIN rec) \cup (DOMAIN more) |-> IF f \in DOMAIN more THEN more[f] ELSE rec[f]]

\* fault variant: the degraded result names the tag it assumed
DegradedResult_WithTag(node) ==
    LET base == BaseResult(node)
    IN  Extend(base,
               [tagName |-> <<"u","n","k","n","o","w","n">> (* unknown *),
                suggestedSelectors |->
                   buildSelectorFromRawNode(base.name, base.role, <<"u","n","k","n","o","w","n">> (* unknown *),
                                            [defined |-> FALSE, items |-> <<>>])])

\* what the callback returns without DOM details: no backend reference, or
\* DOM.describeNode failed
DegradedResult(node) ==
    LET base == BaseResult(node)
    IN  Extend(base,
               [suggestedSelectors |->
                   buildSelectorFromRawNode(base.name, base.role, <<"u","n","k","n","o","w","n">> (* unknown *),
                                            [defined |-> FALSE, items |-> <<>>])])

\* what the callback returns from the reply of DOM.describeNode
ResolvedResult(node, domNode) ==
    LET base == BaseResult(node)
    IN  Extend(base,
               [tagName |-> domNode.localName,
                domAttributes |-> parseAttrs(domNode.attributes),
                suggestedSelectors |->
                   buildSelectorFromRawNode(base.name, base.role, domNode.localName,
                                            domNode.attributes)])

\* fault variant: the values in the order in which the promises resolved
PromiseAll_CompletionOrder(values, order) == [k \in 1..Len(order) |-> values[order[k]]]

\* await Promise.all(promises): the values in the order of the promises
PromiseAll(values, order) == [k \in 1..Len(order) |-> values[k]]

----------------------------------------------------------------------------
(* Node lists drawn for get_interactive_elements. *)

NodeKinds == {"button", "link", "disabled", "ignored", "generic"}

\* button: a button with a backend reference; link: a link without one,
\* its role capitalised and its disabled property false; disabled: a
\* disabled button; ignored: an ignored button; generic: a node of a role
\* that is not interactive
InteractiveInputNode(i, kind) ==
    LET dom == {"nodeId", "ignored", "role", "name"}
                 \cup (IF kind = "link" THEN {} ELSE {"backendDOMNodeId"})
                 \cup (IF kind \in {"disabled", "link"} THEN {"properties"} ELSE {})
    IN  [f \in dom |->
            CASE f = "nodeId" -> i
              [] f = "ignored" -> (kind = "ignored")
              [] f = "role" ->
                    [type |-> "role",
                     value |-> CASE kind = "link" -> <<"L","i","n","k">> (* Link *)
                                 [] kind = "generic" -> <<"g","e","n","e","r","i","c">> (* generic *)
                                 [] OTHER -> <<"b","u","t","t","o","n">> (* button *)]
              [] f = "name" -> [type |-> "computedString", value |-> <<"G","o">> (* Go *)]
              [] f = "properties" ->
                    <<[name |-> "disabled",
                       value |-> [type |-> "boolean", value |-> (kind = "disabled")]]>>
              [] OTHER -> 10 + i]

\* the node of the reply of DOM.describeNode for a backend reference
DescribedNode(backendId) ==
    [localName |-> <<"b","u","t","t","o","n">> (* button *),
     attributes |-> [defined |-> TRUE, items |-> <<<<"c","l","a","s","s">> (* class *), <<"c">>>>]]

RolesArgs ==
    { [defined |-> FALSE, items |-> <<>>],
      [defined |-> TRUE, items |-> <<<<"B","u","t","t","o","n">> (* Button *), <<"b","u","t","t","o","n">> (* button *)>>] }

InitInt ==
    /\ pc = "input"
    /\ \E n \in 0..MaxNodes : \E kind \in [1..n -> NodeKinds] :
          allNodes = [i \in 1..n |-> InteractiveInputNode(i, kind[i])]
    /\ rolesArg \in RolesArgs
    /\ includeDisabled \in BOOLEAN
    /\ maxElements \in 1..MaxElementsArg
    /\ interactiveNodes = <<>>
    /\ limited = <<>>
    /\ settled = <<>>
    /\ completionOrder = <<>>
    /\ failedFetches = {}
    /\ elementsResponse = NoResponse
    /\ SelIdle
    /\ TreeIdle
    /\ SumIdle
    /\ MgrIdle

NeedsFetch(node) == "backendDOMNodeId" \in DOMAIN node
Pending(i) == i \in 1..Len(limited) /\ settled[i] = NoResult

\* the handler up to the await of Promise.all: every callback has run to
\* its first await, those without a backend reference to their return
StartCallbacks ==
    /\ pc = "input"
    /\ LET found == SelectSeq(allNodes,
                       LAMBDA node : IsInteractive(node, TargetRoles(rolesArg), includeDisabled))
           lim == Slice(found, maxElements)
       IN  /\ interactiveNodes' = found
           /\ limited' = lim
           /\ settled' = [i \in 1..Len(lim) |->
                             IF NeedsFetch(lim[i]) THEN NoResult ELSE DegradedResult(lim[i])]
           /\ completionOrder' = SelectSeq([i \in 1..Len(lim) |-> i],
                                           LAMBDA i : ~NeedsFetch(lim[i]))
    /\ pc' = "fetching"
    /\ UNCHANGED <<intArgs, failedFetches, elementsResponse, selVars, treeVars, sumVars, mgrVars>>

\* the reply of DOM.describeNode for the node at position i arrives
DescribeNodeReplies(i) ==
    /\ pc = "fetching"
    /\ Pending(i)
    /\ settled' = [settled EXCEPT
                      ![i] = ResolvedResult(limited[i], DescribedNode(limited[i].backendDOMNodeId))]
    /\ completionOrder' = Append(completionOrder, i)
    /\ UNCHANGED <<pc, intArgs, interactiveNodes, limited, failedFetches, elementsResponse,
                   selVars, treeVars, sumVars, mgrVars>>

\* DOM.describeNode for the node at position i is rejected
DescribeNodeFails(i) ==
    /\ pc = "fetching"
    /\ Pending(i)
    /\ settled' = [settled EXCEPT ![i] = DegradedResult(limited[i])]
    /\ completionOrder' = Append(completionOrder, i)
    /\ failedFetches' = failedFetches \cup {i}
    /\ UNCHANGED <<pc, intArgs, interactiveNodes, limited, elementsResponse,
                   selVars, treeVars, sumVars, mgrVars>>

\* every promise has resolved: Promise.all resolves and the handler returns
ReturnElements ==
    /\ pc = "fetching"
    /\ \A i \in 1..Len(limited) : ~Pending(i)
    /\ LET elementResults == PromiseAll(settled, completionOrder)
       IN  elementsResponse' =
              [ kind        |-> "elements",
                totalFound  |-> Len(interactiveNodes),
                returned    |-> Len(elementResults),
                maxElements |-> maxElements,
                roles       |-> TargetRoles(rolesArg),
                elements    |-> elementResults ]
    /\ pc' = "done"
    /\ UNCHANGED <<intArgs, interactiveNodes, limited, settled, completionOrder,
                   failedFetches, selVars, treeVars, sumVars, mgrVars>>

NextInt ==
    \/ StartCallbacks
    \/ \E i \in 1..MaxNodes : DescribeNodeReplies(i)
    \/ \E i \in 1..MaxNodes : DescribeNodeFails(i)
    \/ ReturnElements

SpecInt == InitInt /\ [][NextInt]_vars

----------------------------------------------------------------------------
(* Order of the elements returned. *)

\* the role and name handed to the selector engine for a raw node
RoleString(node) ==
    IF "role" \in DOMAIN node /\ "value" \in DOMAIN node.role THEN node.role.value ELSE <<>>
NameString(node) ==
    IF "name" \in DOMAIN node /\ "value" \in DOMAIN node.name THEN node.name.value ELSE <<>>

\* the nodes of the list that pass the filter, stated from the arguments
TargetRoleSet ==
    IF rolesArg.defined
    THEN {toLowerCase(rolesArg.items[i]) : i \in 1..Len(rolesArg.items)}
    ELSE {INTERACTIVE_ROLES[i] : i \in 1..Len(INTERACTIVE_ROLES)}

DisabledTrue(node) ==
    /\ "properties" \in DOMAIN node
    /\ \E i \in 1..Len(node.properties) :
          /\ node.properties[i].name = "disabled"
          /\ \A j \in 1..(i - 1) : node.properties[j].name # "disabled"
          /\ "value" \in DOMAIN node.properties[i].value
          /\ node.properties[i].value.value = TRUE

PassesFilter(node) ==
    /\ ~node.ignored
    /\ toLowerCase(RoleString(node)) \in TargetRoleSet
    /\ includeDisabled \/ ~DisabledTrue(node)

FilteredAndLimited ==
    LET passing == SelectSeq(allNodes, PassesFilter)
    IN  SubSeq(passing, 1, IF Len(passing) < maxElements THEN Len(passing) ELSE maxElements)

IdentityOrder(n) == [i \in 1..n |-> i]

\* C20: whatever the order in which the DOM.describeNode fetches complete,
\* the i-th entry of the elements returned is the result for the i-th node
\* of the filtered and limited node list.
C20_OriginalOrder ==
    pc = "done" /\ elementsResponse # NoResponse
    => /\ Len(elementsResponse.elements) = Len(FilteredAndLimited)
       /\ \A i \in 1..Len(FilteredAndLimited) :
             /\ elementsResponse.elements[i].nodeId = FilteredAndLimited[i].nodeId
             /\ elementsResponse.elements[i] = settled[i]

\* the fetches completed in an order that is not the order of the list
C20_Witness ==
    /\ pc = "done" /\ elementsResponse # NoResponse
    /\ Len(elementsResponse.elements) >= 2
    /\ completionOrder # IdentityOrder(Len(completionOrder))
    /\ \E i \in 1..Len(limited) : "tagName" \in DOMAIN elementsResponse.elements[i]
    /\ \A i \in 1..Len(limited) : NeedsFetch(limited[i])

----------------------------------------------------------------------------
(* Failing fetches. *)

\* the element of position i had every fetch succeeded
ElementWithoutFailure(i) ==
    IF NeedsFetch(limited[i])
    THEN ResolvedResult(limited[i], DescribedNode(limited[i].backendDOMNodeId))
    ELSE DegradedResult(limited[i])

\* C21: whichever DOM.describeNode fetches fail, the handler returns a
\* success result with one element per limited node; the element of a
\* failed node has the bundle computed with tag "unknown" and no DOM
\* attributes, and neither tagName nor domAttributes; the elements of the
\* other nodes are what they are when no fetch fails.
C21_FailuresAbsorbed ==
    pc = "done" /\ elementsResponse # NoResponse
    => /\ elementsResponse.kind = "elements"
       /\ Len(elementsResponse.elements) = Len(limited)
       /\ elementsResponse.returned = Len(limited)
       /\ \A i \in 1..Len(limited) :
             LET e == elementsResponse.elements[i]
             IN  IF i \in failedFetches
                 THEN /\ e.nodeId = limited[i].nodeId
                      /\ "tagName" \notin DOMAIN e
                      /\ "domAttributes" \notin DOMAIN e
                      /\ e.suggestedSelectors =
                            buildSelectorFromRawNode(NameString(limited[i]), RoleString(limited[i]),
                                                     <<"u","n","k","n","o","w","n">> (* unknown *), [defined |-> FALSE, items |-> <<>>])
                 ELSE e = ElementWithoutFailure(i)

\* one fetch failed and another, of a later and of an earlier node, succeeded
C21_Witness ==
    /\ pc = "done" /\ elementsResponse # NoResponse
    /\ \E i \in failedFetches :
          /\ \E j \in 1..Len(limited) :
                j # i /\ j \notin failedFetches /\ "tagName" \in DOMAIN elementsResponse.elements[j]
          /\ "tagName" \notin DOMAIN elementsResponse.elements[i]

----------------------------------------------------------------------------
(* Filter and limit. *)

PassingNodes == SelectSeq(allNodes, PassesFilter)

\* C30: get_interactive_elements returns min(totalFound, maxElements)
\* elements, the first maxElements in list order of the nodes that are not
\* ignored, whose lower-cased role is a target role and, unless
\* includeDisabled, whose disabled property is not true; totalFound is the
\* number of all such nodes.
C30_FilterAndLimit ==
    pc = "done" /\ elementsResponse # NoResponse
    => /\ elementsResponse.totalFound = Len(PassingNodes)
       /\ elementsResponse.returned = Len(elementsResponse.elements)
       /\ Len(elementsResponse.elements) = Min({elementsResponse.totalFound, maxElements})
       /\ \A i \in 1..Len(elementsResponse.elements) :
             elementsResponse.elements[i].nodeId = PassingNodes[i].nodeId

\* more nodes pass than maxElements allows, after an ignored, a disabled
\* or a non-interactive node was left out, a capitalised role among them
C30_Witness ==
    /\ pc = "done" /\ elementsResponse # NoResponse
    /\ ~includeDisabled
    /\ elementsResponse.totalFound > maxElements
    /\ Len(allNodes) > elementsResponse.totalFound
    /\ elementsResponse.elements[1].nodeId > 1
    /\ \E i \in 1..Len(PassingNodes) : RoleString(PassingNodes[i]) = <<"L","i","n","k">> (* Link *)

----------------------------------------------------------------------------
(* Cycles, the node count and the unfiltered tree. *)

\* the identifiers on the path from the root of t to a node, per node
RECURSIVE IdPaths(_)
IdPaths(t) ==
    {<<t.nodeId>>} \cup
        (IF "children" \in DOMAIN t
         THEN UNION {{<<t.nodeId>> \o q : q \in IdPaths(t.children[i])} :
                        i \in 1..Len(t.children)}
         ELSE {})

\* the longest child list of the snapshot
MaxFanOut == Max({0} \cup {Len(RawChildIds(id)) : id \in AllIds})

\* the nodes of a full tree of d levels below the root with fan-out b
RECURSIVE FullTreeSize(_, _)
FullTreeSize(b, d) == IF d <= 0 THEN 1 ELSE 1 + b * FullTreeSize(b, d - 1)

\* C27: assembleTree from depth 0 with a positive maxDepth returns, also
\* when child identifiers form a cycle or make a node its own descendant:
\* it makes one call per node of its result, a finite number bounded by
\* the fan-out and maxDepth, and no node of the result is more than
\* maxDepth edges below the root.
C27_BoundedTraversal ==
    (pc = "done" /\ useFullTree /\ ParentlessPositions # {})
    => /\ assembled # NoTree
       /\ Height(assembled) <= maxDepth + 1
       /\ \A q \in IdPaths(assembled) : Len(q) - 1 <= maxDepth
       /\ Cardinality(Paths(assembled)) <= FullTreeSize(MaxFanOut, maxDepth)

\* the root is its own descendant all the way down to the depth limit
C27_Witness ==
    /\ pc = "done" /\ useFullTree /\ assembled # NoTree
    /\ maxDepth >= 2
    /\ Height(assembled) = maxDepth + 1
    /\ \E q \in IdPaths(assembled) :
          Len(q) = maxDepth + 1 /\ \A k \in 1..Len(q) : q[k] = assembled.nodeId

\* C28: in full-tree mode the nodeCount of the result is the number of
\* nodes of the tree of the same result.
C28_NodeCountMatchesTree ==
    (pc = "done" /\ useFullTree /\ response.kind = "tree")
    => response.nodeCount = Cardinality(Paths(response.tree))

\* the nodeCount of the result is the number of nodes of the assembled tree
C28_NodeCountOfAssembled ==
    (pc = "done" /\ useFullTree /\ response.kind = "tree")
    => response.nodeCount = Cardinality(Paths(assembled))

\* the nodes within d levels below the nodes of S along child identifiers
RECURSIVE WithinLevels(_, _)
WithinLevels(S, d) ==
    IF d <= 1 THEN S
    ELSE S \cup WithinLevels(UNION {ChildSet(x) : x \in S}, d - 1)

\* C29: with useFullTree and without interestingOnly no node is left out
\* for being ignored: every node within maxDepth levels of the root along
\* child identifiers is in the tree returned.
C29_RawFullTree ==
    (pc = "done" /\ useFullTree /\ ~interestingOnly /\ response.kind = "tree")
    => WithinLevels({response.tree.nodeId}, maxDepth) \subseteq TreeIds(response.tree)

\* what holds instead: the nodes within maxDepth levels of the root on a
\* path without ignored node below the root
RECURSIVE WithinLevelsUnignored(_, _)
WithinLevelsUnignored(S, d) ==
    IF d <= 1 THEN S
    ELSE S \cup WithinLevelsUnignored(UNION {ChildSet(x) : x \in S} \ IgnoredIds, d - 1)

C29_IgnoredChildrenSkipped ==
    (pc = "done" /\ useFullTree /\ ~interestingOnly /\ response.kind = "tree")
    => TreeIds(response.tree) = WithinLevelsUnignored({response.tree.nodeId}, maxDepth)

----------------------------------------------------------------------------
(* The connection manager (browser/BrowserManager.ts) and the tool         *)
(* handlers around it.  A handler runs until its next await, and calls     *)
(* interleave at the awaits.  A connection is numbered when it is opened;  *)
(* its browser, page and CDP session carry its number.                     *)

NotConnectedMessage == <<"B","r","o","w","s","e","r"," ","i","s"," ","n","o","t"," ","c","o","n","n","e","c","t","e","d","."," ","U","s","e"," ","b","r","o","w","s","e","r","_","c","o","n","n","e","c","t"," ","f","i","r","s","t","."," ","M","a","k","e"," ","s","u","r","e"," ","C","h","r","o","m","e"," ","i","s"," ","r","u","n","n","i","n","g"," ","w","i","t","h"," ","-","-","r","e","m","o","t","e","-","d","e","b","u","g","g","i","n","g","-","p","o","r","t","=","9","2","2","2",".">> (* Browser is not connected. Use browser_connect first. Make sure Chrome is running with --remote-debugging-port=9222. *)
NoPagesMessage == <<"N","o"," ","p","a","g","e","s"," ","f","o","u","n","d"," ","i","n"," ","t","h","e"," ","c","o","n","n","e","c","t","e","d"," ","b","r","o","w","s","e","r","."," ","O","p","e","n"," ","a"," ","t","a","b"," ","f","i","r","s","t",".">> (* No pages found in the connected browser. Open a tab first. *)
MissingArgumentMessage == <<"A","t"," ","l","e","a","s","t"," ","o","n","e"," ","o","f"," ","\"","r","o","l","e","\""," ","o","r"," ","\"","a","c","c","e","s","s","i","b","l","e","N","a","m","e","\""," ","m","u","s","t"," ","b","e"," ","p","r","o","v","i","d","e","d",".">> (* At least one of "role" or "accessibleName" must be provided. *)
AlreadyDisconnectedMessage == <<"A","l","r","e","a","d","y"," ","d","i","s","c","o","n","n","e","c","t","e","d"," ","(","n","o"," ","a","c","t","i","v","e"," ","c","o","n","n","e","c","t","i","o","n",")",".">> (* Already disconnected (no active connection). *)
DisconnectedMessage == <<"D","i","s","c","o","n","n","e","c","t","e","d"," ","f","r","o","m"," ","C","h","r","o","m","e"," ","(","b","r","o","w","s","e","r"," ","p","r","o","c","e","s","s"," ","i","s"," ","s","t","i","l","l"," ","r","u","n","n","i","n","g",")",".">> (* Disconnected from Chrome (browser process is still running). *)

\* messages of errors raised by puppeteer: a refused connection, a closed target
ConnectRefusedMessage == <<"c","o","n","n","e","c","t"," ","E","C","O","N","N","R","E","F","U","S","E","D">> (* connect ECONNREFUSED *)
TargetClosedMessage == <<"P","r","o","t","o","c","o","l"," ","e","r","r","o","r",":"," ","T","a","r","g","e","t"," ","c","l","o","s","e","d">> (* Protocol error: Target closed *)

toolSuccess(data) == [isError |-> FALSE, data |-> data]

\* fault variant: the message is returned without its prefix
toolError_NoPrefix(message) == [isError |-> TRUE, text |-> message]

toolError(message) == [isError |-> TRUE, text |-> <<"E","r","r","o","r",":"," ">> (* Error:  *) \o message]

\* the handlers that need a connection
ConnectionTools ==
    {"browser_navigate", "get_accessibility_tree", "query_accessibility_tree",
     "get_element_properties", "get_interactive_elements", "get_focused_element"}

\* the first browser or protocol operation a handler awaits
FirstOperation(tool) ==
    CASE tool = "browser_navigate" -> "page.goto"
      [] tool = "get_accessibility_tree" -> "page.accessibility.snapshot"
      [] tool = "query_accessibility_tree" -> "Accessibility.queryAXTree"
      [] tool = "get_element_properties" -> "page.$"
      [] tool = "get_interactive_elements" -> "Accessibility.getFullAXTree"
      [] tool = "get_focused_element" -> "page.accessibility.snapshot"

\* the operation a handler awaits under a catch of its own, if it has one
AbsorbedOperation(tool) ==
    CASE tool = "browser_navigate" -> "page.title"
      [] tool = "get_accessibility_tree" -> "page.title"
      [] tool = "query_accessibility_tree" -> "none"
      [] tool = "get_element_properties" -> "DOM.getOuterHTML"
      [] tool = "get_interactive_elements" -> "DOM.describeNode"
      [] tool = "get_focused_element" -> "page.evaluateHandle"

\* a connection nobody has opened
NoConnection ==
    [opened |-> FALSE, sessions |-> 0, enables |-> 0, detaches |-> 0,
     disconnects |-> 0, closes |-> 0]

\* a call nobody has issued
NoCall ==
    [tool |-> "none", at |-> "idle", hasArgs |-> TRUE, browser |-> 0, previous |-> 0,
     session |-> 0, operations |-> <<>>, absorbed |-> {}, thrown |-> <<>>,
     result |-> NoResponse, stateAfter |-> 0]

\* return toolSuccess(data), with the manager's state at that moment
Completed(call, data, st) ==
    [call EXCEPT !.at = "returned", !.result = toolSuccess(data), !.stateAfter = st]

\* an exception reaching the handler's catch: return toolError(error)
Failed(call, message, st) ==
    [call EXCEPT !.at = "returned", !.thrown = message, !.result = toolError(message),
                 !.stateAfter = st]

\* requireConnection
requireConnection(st) ==
    IF st = 0 THEN [threw |-> TRUE, message |-> NotConnectedMessage, session |-> 0]
    ELSE [threw |-> FALSE, message |-> <<>>, session |-> st]

\* fault variant: the arguments are examined before the connection
ToolStart_ArgumentsFirst(tool, hasArgs, st) ==
    IF tool = "query_accessibility_tree" /\ ~hasArgs THEN "missingArgument"
    ELSE IF requireConnection(st).threw THEN "notConnected"
    ELSE "proceed"

\* the statements of a handler before its first await
ToolStart(tool, hasArgs, st) ==
    IF requireConnection(st).threw THEN "notConnected"
    ELSE IF tool = "query_accessibility_tree" /\ ~hasArgs THEN "missingArgument"
    ELSE "proceed"

\* fault variant: connect opens the new connection beside the one held
ReplacesExisting_Never(st) == FALSE

\* connect: if (this.state) await this.disconnect()
ReplacesExisting(st) == st # 0

\* fault variant: the browser is closed
BrowserMethod_Close == "close"

\* disconnect: the method called on the browser
BrowserMethod == "disconnect"

\* the browser call recorded on a connection
BrowserCalled(connection, method) ==
    IF method = "disconnect" THEN [connection EXCEPT !.disconnects = @ + 1]
    ELSE [connection EXCEPT !.closes = @ + 1]

\* connect: what is done to the opened browser when a later step throws
AfterOpenFailure(connection) == connection

IsIdle(p) == calls[p].at = "idle"
InFlight(p) == calls[p].at \notin {"idle", "returned"}

\* calls are numbered in the order they are issued
CanIssue(p) == IsIdle(p) /\ \A q \in 1..(p - 1) : ~IsIdle(q)

OverlapsWith(p) == overlapped \/ \E q \in DOMAIN calls : q # p /\ InFlight(q)

InitMgr ==
    /\ pc = "serving"
    /\ SelIdle
    /\ TreeIdle
    /\ SumIdle
    /\ IntIdle
    /\ managerState = 0
    /\ connections = [c \in 1..MaxCalls |-> NoConnection]
    /\ calls = [p \in 1..MaxCalls |-> NoCall]
    /\ overlapped = FALSE

idleVars == <<pc, selVars, treeVars, sumVars, intVars>>

\* disconnect up to its await of cdpSession.detach()
StartDetach(p, call) ==
    /\ connections' = [connections EXCEPT ![managerState].detaches = @ + 1]
    /\ calls' = [calls EXCEPT ![p] = [call EXCEPT !.at = "detach",
                                                   !.operations = <<"detach">>]]

\* browser_connect is called: connect runs up to its first await
CallConnect(p) ==
    /\ CanIssue(p)
    /\ LET call == [NoCall EXCEPT !.tool = "browser_connect", !.previous = managerState]
       IN  IF ReplacesExisting(managerState)
           THEN StartDetach(p, call)
           ELSE /\ calls' = [calls EXCEPT ![p] = [call EXCEPT !.at = "connecting"]]
                /\ UNCHANGED connections
    /\ overlapped' = OverlapsWith(p)
    /\ UNCHANGED <<managerState, idleVars>>

\* browser_disconnect is called
CallDisconnect(p) ==
    /\ CanIssue(p)
    /\ LET call == [NoCall EXCEPT !.tool = "browser_disconnect", !.previous = managerState]
       IN  IF managerState = 0
           THEN /\ calls' = [calls EXCEPT ![p] =
                                Completed(call, [disconnected |-> TRUE,
                                                 message |-> AlreadyDisconnectedMessage],
                                          managerState)]
                /\ UNCHANGED connections
           ELSE StartDetach(p, call)
    /\ overlapped' = OverlapsWith(p)
    /\ UNCHANGED <<managerState, idleVars>>

\* disconnect resumed after cdpSession.detach(), which may have raised:
\* this.state.browser.disconnect() under its own catch, then this.state = null
DetachSettles(p) ==
    /\ calls[p].at = "detach"
    /\ \E detachRaised \in BOOLEAN, browserRaised \in BOOLEAN :
          LET held == managerState
              raised == (IF detachRaised THEN {"cdpSession.detach"} ELSE {}) \cup
                        (IF browserRaised \/ held = 0 THEN {"browser.disconnect"} ELSE {})
              call == [calls[p] EXCEPT !.absorbed = raised,
                                       !.operations = IF held = 0 THEN @
                                                      ELSE Append(@, BrowserMethod)]
          IN  /\ connections' =
                    IF held = 0 THEN connections
                    ELSE [connections EXCEPT ![held] = BrowserCalled(@, BrowserMethod)]
              /\ managerState' = 0
              /\ calls' = [calls EXCEPT ![p] =
                    IF call.tool = "browser_connect"
                    THEN [call EXCEPT !.at = "connecting"]
                    ELSE Completed(call, [disconnected |-> TRUE,
                                          message |-> DisconnectedMessage], 0)]
    /\ UNCHANGED <<overlapped, idleVars>>

\* the lowest number no connection carries yet
FreshConnection == Min({c \in DOMAIN connections : ~connections[c].opened})

\* puppeteer.connect settles
ConnectSettles(p) ==
    /\ calls[p].at = "connecting"
    /\ \E ok \in BOOLEAN :
          IF ok
          THEN LET c == FreshConnection
               IN  /\ connections' = [connections EXCEPT ![c].opened = TRUE]
                   /\ calls' = [calls EXCEPT ![p].at = "pages", ![p].browser = c]
          ELSE /\ calls' = [calls EXCEPT ![p] = Failed(@, ConnectRefusedMessage, managerState)]
               /\ UNCHANGED connections
    /\ UNCHANGED <<managerState, overlapped, idleVars>>

\* connect throws after the browser was opened
ConnectFails(p, message) ==
    /\ connections' = [connections EXCEPT ![calls[p].browser] = AfterOpenFailure(@)]
    /\ calls' = [calls EXCEPT ![p] = Failed(@, message, managerState)]
    /\ UNCHANGED managerState

\* browser.pages() settles
PagesSettles(p) ==
    /\ calls[p].at = "pages"
    /\ \E outcome \in {"pages", "empty", "raised"} :
          CASE outcome = "pages" ->
                  /\ calls' = [calls EXCEPT ![p].at = "session"]
                  /\ UNCHANGED <<connections, managerState>>
            [] outcome = "empty" -> ConnectFails(p, NoPagesMessage)
            [] outcome = "raised" -> ConnectFails(p, TargetClosedMessage)
    /\ UNCHANGED <<overlapped, idleVars>>

\* page.createCDPSession() settles; Accessibility.enable is sent on the session
SessionSettles(p) ==
    /\ calls[p].at = "session"
    /\ \E ok \in BOOLEAN :
          IF ok
          THEN /\ connections' = [connections EXCEPT ![calls[p].browser].sessions = @ + 1,
                                                      ![calls[p].browser].enables = @ + 1]
               /\ calls' = [calls EXCEPT ![p].at = "enable"]
               /\ UNCHANGED managerState
          ELSE ConnectFails(p, TargetClosedMessage)
    /\ UNCHANGED <<overlapped, idleVars>>

\* Accessibility.enable settles: this.state = {...}, and browser_connect returns
EnableSettles(p) ==
    /\ calls[p].at = "enable"
    /\ \E ok \in BOOLEAN :
          IF ok
          THEN /\ managerState' = calls[p].browser
               /\ calls' = [calls EXCEPT ![p] =
                               Completed(@, [connected |-> TRUE], calls[p].browser)]
               /\ UNCHANGED connections
          ELSE ConnectFails(p, TargetClosedMessage)
    /\ UNCHANGED <<overlapped, idleVars>>

\* a handler that needs a connection is called and runs up to its first await
CallTool(p) ==
    /\ CanIssue(p)
    /\ \E tool \in ConnectionTools :
       \E hasArgs \in (IF tool = "query_accessibility_tree" THEN BOOLEAN ELSE {TRUE}) :
          LET call == [NoCall EXCEPT !.tool = tool, !.hasArgs = hasArgs,
                                     !.previous = managerState]
              start == ToolStart(tool, hasArgs, managerState)
          IN  calls' = [calls EXCEPT ![p] =
                 CASE start = "notConnected" ->
                         Failed(call, requireConnection(managerState).message, managerState)
                   [] start = "missingArgument" ->
                         [call EXCEPT !.at = "returned",
                                      !.session = requireConnection(managerState).session,
                                      !.result = toolError(MissingArgumentMessage),
                                      !.stateAfter = managerState]
                   [] start = "proceed" ->
                         [call EXCEPT !.at = "first",
                                      !.session = requireConnection(managerState).session,
                                      !.operations = <<FirstOperation(tool)>>]]
    /\ overlapped' = OverlapsWith(p)
    /\ UNCHANGED <<managerState, connections, idleVars>>

\* the first operation of a handler settles
OperationSettles(p) ==
    /\ calls[p].at = "first"
    /\ \E ok \in BOOLEAN :
          calls' = [calls EXCEPT ![p] =
             IF ~ok THEN Failed(@, TargetClosedMessage, managerState)
             ELSE IF AbsorbedOperation(@.tool) = "none"
                  THEN Completed(@, [tool |-> @.tool], managerState)
                  ELSE [@ EXCEPT !.at = "absorbing",
                                 !.operations = Append(@, AbsorbedOperation(calls[p].tool))]]
    /\ UNCHANGED <<managerState, connections, overlapped, idleVars>>

\* the operation awaited under the handler's own catch settles
AbsorbedSettles(p) ==
    /\ calls[p].at = "absorbing"
    /\ \E ok \in BOOLEAN :
          calls' = [calls EXCEPT ![p] =
             Completed([@ EXCEPT !.absorbed =
                           IF ok THEN {} ELSE {AbsorbedOperation(calls[p].tool)}],
                       [tool |-> @.tool], managerState)]
    /\ UNCHANGED <<managerState, connections, overlapped, idleVars>>

NextMgr ==
    \E p \in 1..MaxCalls :
        \/ CallConnect(p)
        \/ CallDisconnect(p)
        \/ CallTool(p)
        \/ DetachSettles(p)
        \/ ConnectSettles(p)
        \/ PagesSettles(p)
        \/ SessionSettles(p)
        \/ EnableSettles(p)
        \/ OperationSettles(p)
        \/ AbsorbedSettles(p)

SpecMgr == InitMgr /\ [][NextMgr]_vars

MgrTypeOK ==
    /\ managerState \in 0..MaxCalls
    /\ \A p \in DOMAIN calls : calls[p].at \in
          {"idle", "detach", "connecting", "pages", "session", "enable", "first",
           "absorbing", "returned"}

----------------------------------------------------------------------------
(* The handlers' results. *)

Returned == {p \in DOMAIN calls : calls[p].at = "returned"}

\* C22: every handler that has returned did so with a toolSuccess or a
\* toolError result, whatever its browser and protocol operations did and
\* whatever happened to the connection meanwhile: an exception that reached
\* the handler's catch became isError true with the text "Error: <message>",
\* and a call that has not returned has no result.
C22_AlwaysAResult ==
    pc = "serving" =>
        \A p \in DOMAIN calls :
            LET r == calls[p].result
            IN  IF p \in Returned
                THEN /\ "isError" \in DOMAIN r
                     /\ r.isError => DOMAIN r = {"isError", "text"}
                     /\ ~r.isError => DOMAIN r = {"isError", "data"} /\ calls[p].thrown = <<>>
                     /\ calls[p].thrown # <<>> =>
                            r = [isError |-> TRUE, text |-> <<"E","r","r","o","r",":"," ">> (* Error:  *) \o calls[p].thrown]
                ELSE r = NoResponse /\ calls[p].thrown = <<>>

\* witness of C22: a handler's operation failed after the connection it had
\* been given was dropped under it
C22_Witness ==
    \E p \in Returned :
        /\ calls[p].tool \in ConnectionTools
        /\ calls[p].session # 0
        /\ calls[p].stateAfter = 0
        /\ connections[calls[p].session].disconnects = 1
        /\ calls[p].thrown = TargetClosedMessage
        /\ calls[p].result = [isError |-> TRUE, text |-> <<"E","r","r","o","r",":"," ">> (* Error:  *) \o TargetClosedMessage]

\* C23: a handler other than browser_connect and browser_disconnect that is
\* called while the manager holds no connection returns isError true with the
\* BrowserNotConnectedError message and issues no operation at all, also
\* query_accessibility_tree called without role and accessibleName.
C23_NotConnected ==
    pc = "serving" =>
        \A p \in DOMAIN calls :
            (calls[p].tool \in ConnectionTools /\ calls[p].previous = 0)
            => /\ p \in Returned
               /\ calls[p].result = [isError |-> TRUE, text |-> <<"E","r","r","o","r",":"," ">> (* Error:  *) \o NotConnectedMessage]
               /\ calls[p].operations = <<>>
               /\ calls[p].session = 0

\* witness of C23: query_accessibility_tree without arguments and without a connection
C23_Witness ==
    \E p \in Returned :
        /\ calls[p].tool = "query_accessibility_tree"
        /\ ~calls[p].hasArgs
        /\ calls[p].previous = 0
        /\ calls[p].result.isError

----------------------------------------------------------------------------
(* The connection held. *)

IsToolCall(p) == calls[p].tool \in ConnectionTools

ConnectSucceeded(p) ==
    /\ calls[p].tool = "browser_connect"
    /\ p \in Returned
    /\ ~calls[p].result.isError

C25_DisconnectEnds ==
    pc = "serving" =>
        /\ \A c \in DOMAIN connections : connections[c].closes = 0
        /\ \A p \in Returned :
              calls[p].tool = "browser_disconnect"
              => /\ ~calls[p].result.isError
                 /\ calls[p].result.data.disconnected
                 /\ calls[p].thrown = <<>>
                 /\ calls[p].stateAfter = 0
                 /\ requireConnection(calls[p].stateAfter).threw
                 /\ calls[p].previous = 0 =>
                       /\ calls[p].operations = <<>>
                       /\ calls[p].result.data.message = AlreadyDisconnectedMessage
                 /\ calls[p].previous # 0 =>
                       /\ calls[p].operations \in {<<"detach">>, <<"detach", "disconnect">>}
                       /\ overlapped \/ calls[p].operations = <<"detach", "disconnect">>

\* witness of C25: both the detach and the browser's disconnect raised
C25_Witness ==
    \E p \in Returned :
        /\ calls[p].tool = "browser_disconnect"
        /\ calls[p].previous # 0
        /\ calls[p].absorbed = {"cdpSession.detach", "browser.disconnect"}
        /\ calls[p].operations = <<"detach", "disconnect">>
        /\ managerState = 0

\* witness of C25, second case: browser_disconnect called with no connection
C25_IdleDisconnect ==
    \E p \in Returned :
        /\ calls[p].tool = "browser_disconnect"
        /\ calls[p].previous = 0
        /\ calls[p].result.data.disconnected

\* C26: once every call has returned, each connection that connect opened is
\* the one held or has been disconnected.
C26_NoConnectionLeft ==
    (pc = "serving" /\ \A p \in DOMAIN calls : ~InFlight(p))
    => \A c \in DOMAIN connections :
          connections[c].opened
          => (managerState = c \/ connections[c].disconnects > 0)

\* C26, sequential case: also violated when no two calls ever overlap
C26_NoConnectionLeft_Sequential ==
    (pc = "serving" /\ ~overlapped /\ \A p \in DOMAIN calls : ~InFlight(p))
    => \A c \in DOMAIN connections :
          connections[c].opened
          => (managerState = c \/ connections[c].disconnects > 0)

\* C26, no failure: two connects that both succeed leave the first one open
C26_NoConnectionLeft_AllSucceed ==
    (pc = "serving" /\ \A p \in DOMAIN calls : ~InFlight(p) /\ calls[p].thrown = <<>>)
    => \A c \in DOMAIN connections :
          connections[c].opened
          => (managerState = c \/ connections[c].disconnects > 0)

====
